---- MODULE Spec2Model ----
(***************************************************************************)
(* A model of the debate orchestration of the AI debate system.            *)
(*                                                                         *)
(* The repository holds three drivers of a debate session:                 *)
(*   "chain"  - DebateSystem.run_debate of the langchain variant           *)
(*              (langchain_debatesys/src/tools/debate_system.py), with     *)
(*              ModeratorChain, DebateChain and FactCheckerChain;          *)
(*   "agents" - DebateSystem.run_debate_round of the agents package        *)
(*              (src/agents/debate_system.py), with ModeratorAgent;        *)
(*   "app"    - main() of the top-level streamlit script (main.py), with   *)
(*              DebateAgent, ModeratorAgent and HFInferenceLLM.            *)
(* impl selects the driver of a session; one session is one run.           *)
(*                                                                         *)
(* The text generator is an opaque collaborator: every generation call     *)
(* draws its outcome from GenOutcomes (a text, or Raise for an exception). *)
(***************************************************************************)
EXTENDS Integers, Sequences, FiniteSets, TLC

VARIABLES
    impl,       \* which driver runs the session
    rounds,     \* config.debate_rounds / parameters['debate_rounds']
    factCheck,  \* config.real_time_fact_check / parameters['real_time_fact_check']
    pc,         \* position of the driver: intro, opening, rebuttal, closing, modclosing, done, failed
    turn,       \* index of the debater whose turn it is in the current two-debater loop
    round,      \* number of the current rebuttal round (0 before the rounds)
    log,        \* DebateSystem.debate_log
    argsMade,   \* arguments_made of each debater
    rebCalls,   \* history: the arguments of every generate_rebuttal call, in call order
    fcCalls,    \* history: the statement of every check_statement call and where its result was logged
    genFails,   \* history: number of turns whose generation call raised
    crashed,    \* the driver left its try block through the except handler
    modStage,   \* debate_state['current_stage'] of the session's moderator
    openResp,   \* history: per debater, the response of the generation call of its opening
    clock,      \* the clock time.time() reads, in ticks
    analytics,  \* history: what the get_analytics call returned, if it was called, and
                \* the length of the log at the call
    checks      \* history: the moderate("intervention") calls of the driver: the round
                \* and the debater whose rebuttal came before the call

orchVars == <<impl, rounds, factCheck, pc, turn, round, log, argsMade, rebCalls,
              fcCalls, genFails, crashed, modStage, openResp, clock, analytics, checks>>

\* One fact-checker instance (FactCheckerChain with its ClaimVerifier, or
\* FactCheckerAgent), driven by a sequence of check_statement calls
VARIABLES
    fcImpl,      \* "chain": FactCheckerChain, "agents": FactCheckerAgent
    verified,    \* verified_claims / verified_facts: claim -> cached record, NotCached if absent
    verifyCalls, \* history: number of verification generation calls issued, per claim
    seen,        \* history: the claims that occurred in a checked statement
    lastResult,  \* the result of the last check_statement call
    given,       \* history: per claim, the (status, confidence) pairs returned for it
    nChecks,     \* number of check_statement calls so far
    lastCall     \* history: the claims of the last statement, which of them a generation
                 \* call was issued for, and the outcomes of those calls

fcVars == <<fcImpl, verified, verifyCalls, seen, lastResult, given, nChecks, lastCall>>

\* One moderator instance (ModeratorChain with its tools, or ModeratorAgent),
\* driven by a sequence of calls of its public operations
VARIABLES
    mImpl,          \* "chain": ModeratorChain, "agents": ModeratorAgent
    mClock,         \* the reading of time.time(), in seconds
    mStage,         \* debate_state['current_stage']
    mLastSpeaker,   \* debate_state['last_speaker'], "" if none
    mSpeakerStart,  \* agents: debate_state['last_speaker_start']; NoTime if None
    mTimer,         \* chain: TimingTool start_time and speaker_times
    mInterventions, \* debate_state['interventions'] / ['interventions_made']: the reasons
    mAdherence,     \* debate_state['topic_adherence_score'], in units of 1 / AdherenceOne
    mInappropriate, \* inappropriate_content_count / ContentModerationTool.violation_count
    mInterruptions, \* debate_state['interruptions']
    mResult,        \* the result of the last moderate call
    mCheck,         \* history: the conditions at the last intervention check and its reason
    mOps,           \* number of operations so far
    mGen,           \* history: the generation call of the last moderate call: none, ok or raised
    mTopic,         \* chain: TopicAdherenceTool.topic_scores, as their sum and their number
    mSample,        \* history: the last update of the topic score: old score, sample, new score
    mNext           \* history: the number of transitions so far and the next speaker the
                    \* last of them selected

modVars == <<mImpl, mClock, mStage, mLastSpeaker, mSpeakerStart, mTimer, mInterventions,
             mAdherence, mInappropriate, mInterruptions, mResult, mCheck, mOps, mGen,
             mTopic, mSample, mNext>>

\* One debater instance (DebateChain with its ArgumentAnalyzer, or DebateAgent),
\* driven by a sequence of calls of its operations
VARIABLES
    dImpl,       \* "chain": DebateChain, "agents": DebateAgent
    dMetrics,    \* chain: metrics; agents: the debater keeps no counters
    dArgs,       \* arguments_made: the kind and content of each argument
    dText,       \* the text of the last strength evaluation
    dValue,      \* the value the last strength evaluation returned, in tenths
    dReturned,   \* history: per text, the values its evaluations returned
    dOps,        \* number of operations so far
    dOpponent,   \* agents: opponent_arguments
    dRebuttal    \* history: the last generate_rebuttal call: its argument, the outcome of
                 \* the analysis call, the analysis, the outcome of the generation call
                 \* and the content returned
VARIABLES
    dCalls       \* history: the generate calls so far: kind, whether the generation call
                 \* raised, and the content returned

debVars == <<dImpl, dMetrics, dArgs, dText, dValue, dReturned, dOps, dOpponent, dRebuttal,
             dCalls>>

(* The goals of one agent (agents implementation) *)
VARIABLES
    gRole,       \* the role of the agent: "debater", "fact_checker" or "moderator"
    gGoals,      \* goals: per goal its progress, in tenths, and achieved
    gLast,       \* history: the last event, "none", "learn" or the status verified
    gOps         \* number of events so far

goalVars == <<gRole, gGoals, gLast, gOps>>

(* The four role objects of one session, under turns taken in any order *)
VARIABLES
    sImpl,       \* "chain": DebateSystem with its chains, "agents": the agent objects
    sArgs,       \* per debater, the length of its arguments_made
    sOpp,        \* agents: per debater, the length of its opponent_arguments
    sStage,      \* the moderator's debate_state['current_stage']
    sCache,      \* the claims in the fact checker's verification cache
    sMemory,     \* per role, the number of entries in the memory the role holds
    sLast,       \* history: the role that took the last turn, "none" before the first
    sOps         \* number of turns so far

sessVars == <<sImpl, sArgs, sOpp, sStage, sCache, sMemory, sLast, sOps>>

(* A fact checker's response parser applied to one response text. *)
VARIABLES
    pImpl,       \* "chain": ClaimVerifier._parse_verification, "agents": FactCheckerAgent._parse_verification_response
    pLines,      \* history: the lines of the response text parsed last
    pStatus      \* the 'status' of the result returned last, NoStatus before the first

parseVars == <<pImpl, pLines, pStatus>>

(* The memory store of one agent of the agents implementation *)
VARIABLES
    memRole,     \* the role of the agent: "debater", "fact_checker" or "moderator"
    memories,    \* self.memories, by the importance of each memory, in hundredths
    memRemoved,  \* history: the importances the last operation removed from the store
    memOps       \* number of operations so far

memVars == <<memRole, memories, memRemoved, memOps>>

unitVars == <<parseVars, memVars>>

vars == <<orchVars, fcVars, modVars, debVars, goalVars, sessVars, unitVars>>

-----------------------------------------------------------------------------
(* Bounds and input sets *)

MaxRounds == 2

\* the clock stops at MaxTime ticks
MaxTime == 1

\* time.time() at a call that follows a reading t: the clock does not run backwards
Later(t) == {u \in {t, t + 1} : u <= MaxTime}

Texts == {"a", "b"}
Raise == "RAISE"
GenOutcomes == Texts \cup {Raise}

\* the generation call of an opening statement can also return the empty text
OpeningOutcomes == GenOutcomes \cup {""}

\* str(fact_check) of a check_statement result, by its overall_accuracy label
FCResults == {"Unknown", "Highly Accurate"}

Impls == {"chain", "agents", "app"}

Order == <<"Proponent", "Opponent">>

Other(d) == IF d = "Proponent" THEN "Opponent" ELSE "Proponent"

\* debater.name.upper()
Upper(d) == IF d = "Proponent" THEN "PROPONENT" ELSE "OPPONENT"

RebuttalType(d) == IF d = "Proponent" THEN "PROPONENT_REBUTTAL" ELSE "OPPONENT_REBUTTAL"

ClosingType(d) == IF d = "Proponent" THEN "PROPONENT_CLOSING" ELSE "OPPONENT_CLOSING"

-----------------------------------------------------------------------------
(* Metadata: the keys the model reads, "none"/FALSE when the key is absent *)

EmptyMeta == [stage |-> "none", error |-> FALSE]

ErrorMeta == [stage |-> "none", error |-> TRUE]

StageMeta(stage, err) == [stage |-> stage, error |-> err]

-----------------------------------------------------------------------------
(* DebateSystem.log_event: appends one event *)

\* an append at the wrong end of the list
log_event_at_front(l, event_type, content, metadata, t) ==
    <<[type |-> event_type, content |-> content, metadata |-> metadata,
       timestamp |-> t]>> \o l

\* a timestamp that counts down
log_event_countdown(l, event_type, content, metadata, t) ==
    Append(l, [type |-> event_type, content |-> content, metadata |-> metadata,
               timestamp |-> MaxTime - t])

\* t is the value time.time() returns at the call
log_event(l, event_type, content, metadata, t) ==
    Append(l, [type |-> event_type, content |-> content, metadata |-> metadata,
               timestamp |-> t])

-----------------------------------------------------------------------------
(* ModeratorChain.moderate as run_debate calls it: no 'content' keyword, so *)
(* _check_intervention_needed returns None and the stage decides.           *)

ModeratorChain_moderate(stage, out) ==
    IF stage \in {"introduction", "transition", "closing"}
    THEN IF out = Raise
         THEN [content |-> "Moderation error: E", hasMetadata |-> TRUE,
               metadata |-> StageMeta(stage, TRUE)]
         ELSE [content |-> out, hasMetadata |-> TRUE,
               metadata |-> StageMeta(stage, FALSE)]
    ELSE [content |-> "Unknown stage: intervention", hasMetadata |-> FALSE,
          metadata |-> EmptyMeta]

-----------------------------------------------------------------------------
(* DebateChain.generate_opening / generate_rebuttal / generate_closing:      *)
(* ok says whether the statement was appended to arguments_made.             *)

DebateChain_generate_opening(out) ==
    IF out = Raise
    THEN [content |-> "Error generating opening: E", metadata |-> ErrorMeta, ok |-> FALSE]
    ELSE [content |-> out, metadata |-> EmptyMeta, ok |-> TRUE]

DebateChain_generate_rebuttal(previous_argument, out) ==
    IF out = Raise
    THEN [content |-> "Error generating rebuttal: E", metadata |-> ErrorMeta, ok |-> FALSE]
    ELSE [content |-> out, metadata |-> EmptyMeta, ok |-> TRUE]

\* a closing that is recorded before its generation call
DebateChain_generate_closing_recorded_first(out) ==
    IF out = Raise
    THEN [content |-> "Error generating closing: E", metadata |-> ErrorMeta, ok |-> TRUE]
    ELSE [content |-> out, metadata |-> EmptyMeta, ok |-> TRUE]

DebateChain_generate_closing(out) ==
    IF out = Raise
    THEN [content |-> "Error generating closing: E", metadata |-> ErrorMeta, ok |-> FALSE]
    ELSE [content |-> out, metadata |-> EmptyMeta, ok |-> TRUE]

Made(kind, st) == [type |-> kind, content |-> st.content]

-----------------------------------------------------------------------------
(* run_debate: the last argument of the opponent, by a scan of the log *)

OpponentArgs(l, opponent) == SelectSeq(l, LAMBDA e : e.type = Upper(opponent))

\* the idiom of run_debate_round, debate_log[-2]: the event before the last
LastArgument_second_to_last(l, opponent) == l[Len(l) - 1].content

LastArgument(l, opponent) ==
    LET opponent_args == OpponentArgs(l, opponent)
    IN  IF opponent_args # <<>>
        THEN opponent_args[Len(opponent_args)].content
        ELSE ""

-----------------------------------------------------------------------------
(* The fact checker: FactCheckerChain / ClaimVerifier (chains/fact_checker.py) *)
(* and FactCheckerAgent (agents/fact_checker.py).                              *)
(* Confidences are in hundredths (0.9 is 90); a contribution to the overall   *)
(* accuracy is in two-hundredths, so that half a confidence stays an integer. *)

MaxChecks == 2
MaxClaims == 2

Claims == {"c1", "c2"}

\* the claim lists an extraction can yield
ClaimLists == UNION {[1..n -> Claims] : n \in 0..MaxClaims}

\* a verification response, by its Status: and Confidence: lines: status ""
\* is a response without a status, confidence NoNumber one without a number;
\* the number is kept in hundredths, 90 for "0.9" and 8500 for "85"
NoNumber == 0 - 1

Responses ==
    { [raises |-> FALSE, status |-> "Verified", confidence |-> 90],
      [raises |-> FALSE, status |-> "Verified", confidence |-> 8500],
      [raises |-> FALSE, status |-> "Misleading", confidence |-> 50],
      [raises |-> FALSE, status |-> "", confidence |-> NoNumber] }

\* the generation call of a verification raises
VerRaise == [raises |-> TRUE, status |-> "", confidence |-> NoNumber]

VerOutcomes == Responses \cup {VerRaise}

NotCached == [status |-> "NotCached", confidence |-> 0]

ErrorRecord == [status |-> "Error", confidence |-> 0]

\* ClaimVerifier._parse_verification: the defaults are "Unverified" and 0.0,
\* the text of the Status: line and the float of the Confidence: line are
\* taken as they are
ClaimVerifier_parse_verification(resp) ==
    [status |-> IF resp.status = "" THEN "Unverified" ELSE resp.status,
     confidence |-> IF resp.confidence = NoNumber THEN 0 ELSE resp.confidence]

\* FactCheckerAgent._parse_verification_response: the status is found by
\* keyword ('verified' is tested first and is part of 'unverified'); a number
\* above 1 is a percentage, and the result is clamped to [0, 1]
FactCheckerAgent_parse_verification_response(resp) ==
    LET status == IF resp.status \in {"Verified", "Unverified"} THEN "Verified"
                  ELSE IF resp.status = "Misleading" THEN "Misleading"
                  ELSE "Unverified"
        c == IF resp.confidence > 100 THEN resp.confidence \div 100 ELSE resp.confidence
        clamped == IF c > 100 THEN 100 ELSE IF c < 0 THEN 0 ELSE c
    IN  [status |-> status,
         confidence |-> IF resp.confidence = NoNumber THEN 0 ELSE clamped]

\* a failed verification that returns the record of a response without
\* status and confidence
ClaimVerifier_verify_claim_unverified_on_failure(c, claim, out) ==
    IF c.cache[claim] # NotCached
    THEN [cache |-> c.cache, calls |-> c.calls, result |-> c.cache[claim]]
    ELSE IF out.raises
    THEN [cache |-> c.cache,
          calls |-> [c.calls EXCEPT ![claim] = @ + 1],
          result |-> [status |-> "Unverified", confidence |-> 0]]
    ELSE LET verification == ClaimVerifier_parse_verification(out)
         IN  [cache |-> [c.cache EXCEPT ![claim] = verification],
              calls |-> [c.calls EXCEPT ![claim] = @ + 1],
              result |-> verification]

\* ClaimVerifier.verify_claim: c is [cache, calls]; the result and the state after
ClaimVerifier_verify_claim(c, claim, out) ==
    IF c.cache[claim] # NotCached
    THEN [cache |-> c.cache, calls |-> c.calls, result |-> c.cache[claim]]
    ELSE IF out.raises
    THEN [cache |-> c.cache,
          calls |-> [c.calls EXCEPT ![claim] = @ + 1],
          result |-> ErrorRecord]
    ELSE LET verification == ClaimVerifier_parse_verification(out)
         IN  [cache |-> [c.cache EXCEPT ![claim] = verification],
              calls |-> [c.calls EXCEPT ![claim] = @ + 1],
              result |-> verification]

\* FactCheckerAgent.check_statement, lines 239-244, with _verify_claim
FactCheckerAgent_verify_cached(c, claim, out) ==
    IF c.cache[claim] # NotCached
    THEN [cache |-> c.cache, calls |-> c.calls, result |-> c.cache[claim]]
    ELSE LET result == IF out.raises
                       THEN ErrorRecord
                       ELSE FactCheckerAgent_parse_verification_response(out)
         IN  [cache |-> [c.cache EXCEPT ![claim] = result],
              calls |-> [c.calls EXCEPT ![claim] = @ + 1],
              result |-> result]

VerifyOne(which, c, claim, out) ==
    IF which = "chain"
    THEN ClaimVerifier_verify_claim(c, claim, out)
    ELSE FactCheckerAgent_verify_cached(c, claim, out)

\* the loop over the claims of a statement: claims[i..], with outs[i] the
\* outcome of the generation call for claims[i] if one is issued
RECURSIVE VerifyAll(_, _, _, _, _, _)
VerifyAll(which, c, claims, outs, i, results) ==
    IF i > Len(claims)
    THEN [cache |-> c.cache, calls |-> c.calls, results |-> results]
    ELSE LET r == VerifyOne(which, c, claims[i], outs[i])
         IN  VerifyAll(which, [cache |-> r.cache, calls |-> r.calls], claims, outs, i + 1,
                       Append(results, [claim |-> claims[i],
                                        status |-> r.result.status,
                                        confidence |-> r.result.confidence]))

\* history of the loop: the positions of claims a generation call is issued
\* for, those whose claim is not cached when its turn comes
RECURSIVE IssuedAt(_, _, _, _, _, _)
IssuedAt(which, c, claims, outs, i, issued) ==
    IF i > Len(claims)
    THEN issued
    ELSE LET r == VerifyOne(which, c, claims[i], outs[i])
         IN  IssuedAt(which, [cache |-> r.cache, calls |-> r.calls], claims, outs, i + 1,
                      Append(issued, c.cache[claims[i]] = NotCached))

Contribution(r) ==
    IF r.status = "Verified" THEN 2 * r.confidence
    ELSE IF r.status = "Misleading" THEN r.confidence
    ELSE 0

RECURSIVE SumContributions(_)
SumContributions(results) ==
    IF results = <<>> THEN 0
    ELSE Contribution(Head(results)) + SumContributions(Tail(results))

\* _get_accuracy_label on the mean sum / (200 * n)
AccuracyLabel(sum, n) ==
    IF sum >= 160 * n THEN "Highly Accurate"
    ELSE IF sum >= 120 * n THEN "Moderately Accurate"
    ELSE IF sum >= 80 * n THEN "Low Accuracy"
    ELSE "Unverified"

\* FactCheckerChain._aggregate_results / FactCheckerAgent._aggregate_verification_results
AggregateResults(which, results) ==
    IF results = <<>>
    THEN [overall_accuracy |-> IF which = "chain" THEN "Unknown" ELSE "No claims verified",
          sum |-> 0, n |-> 0, details |-> <<>>]
    ELSE [overall_accuracy |-> AccuracyLabel(SumContributions(results), Len(results)),
          sum |-> SumContributions(results), n |-> Len(results), details |-> results]

NoResult == [overall_accuracy |-> "none", sum |-> 0, n |-> 0, details |-> <<>>]

NoCall == [claims |-> <<>>, issued |-> <<>>, outs |-> <<>>]

FcIdle ==
    /\ fcImpl = "chain"
    /\ verified = [c \in Claims |-> NotCached]
    /\ verifyCalls = [c \in Claims |-> 0]
    /\ seen = {}
    /\ lastResult = NoResult
    /\ given = [c \in Claims |-> {}]
    /\ nChecks = 0
    /\ lastCall = NoCall

-----------------------------------------------------------------------------
(* The moderator: ModeratorChain with TimingTool, TopicAdherenceTool and      *)
(* ContentModerationTool (chains/moderator.py), and ModeratorAgent            *)
(* (agents/moderator.py).                                                     *)

MaxModOps == 2
MaxCount == 2
MaxTicks == 1

\* the seconds between two readings of the clock that differ
TickSeconds == 130

\* None, for a time
NoTime == 0 - 1

\* topic_adherence_score 1.0
AdherenceOne == 4

\* the stages moderate is called with
StageInputs == {"introduction", "transition", "intervention", "closing"}

\* the statements handed to the content check
Statements == {"fair point", "Violent HATE"}

\* the statement handed to ModeratorChain.moderate and the outcome of the topic
\* monitor's generation call on it: content is "absent" without the keyword,
\* score is "low" (below 0.5), "high" or "raise"
ContentInputs ==
    {[content |-> "absent", score |-> "high"]} \cup
    [content : Statements, score : {"low", "high", "raise"}]

\* content.lower()
str_lower(content) ==
    CASE content = "Violent HATE" -> "violent hate"
      [] OTHER -> content

\* [term for term in self.inappropriate_terms if term in text]
TermsIn(text) ==
    CASE text = "violent hate" -> {"violent", "hate"}
      [] OTHER -> {}

\* a content check that counts every term it finds
ContentModerationTool_run_per_term(content, count) ==
    LET violations == TermsIn(str_lower(content))
    IN  [needs_intervention |-> violations # {}, violations |-> violations,
         count |-> count + Cardinality(violations)]

\* ContentModerationTool._run(content) with violation_count = count
ContentModerationTool_run(content, count) ==
    LET violations == TermsIn(str_lower(content))
    IN  IF violations # {}
        THEN [needs_intervention |-> TRUE, violations |-> violations, count |-> count + 1]
        ELSE [needs_intervention |-> FALSE, violations |-> {}, count |-> count]

Speakers == {"Proponent", "Opponent"}

\* the speaker keyword of ModeratorChain.moderate: "" when it is not given
SpeakerInputs == {"", "Proponent"}

\* time_limits.get(stage, 120) / stage_times.get(stage, 120)
TimeLimit(stage) == IF stage \in {"opening", "closing"} THEN 180 ELSE 120

\* TimingTool._run(speaker, stage) at clock reading now: speaker "" is None,
\* stage "" is None; the status and the timer after the call
TimingTool_run(tm, speaker, stage, now) ==
    IF tm.start = NoTime
    THEN [status |-> "started", tm |-> [tm EXCEPT !.start = now]]
    ELSE IF speaker # ""
    THEN LET last == IF tm.times[speaker] = NoTime THEN now ELSE tm.times[speaker]
             duration == now - last
         IN  [status |-> IF stage # "" /\ duration > TimeLimit(stage)
                         THEN "time_violation" ELSE "speaking",
              tm |-> [tm EXCEPT !.times[speaker] = now]]
    ELSE [status |-> "ongoing", tm |-> tm]

\* _determine_next_speaker of either moderator: the 2-cycle of speaker_order
determine_next_speaker(last) == IF last = "" THEN Order[1] ELSE Other(last)

NoReason == "None"

\* ModeratorChain._check_intervention_needed(kwargs): content is "absent" or
\* the statement; score is the outcome of the topic monitor's generation
\* call: "low" (below 0.5), "high", or "raise". The reason, the timer and the
\* violation count after the check, and whether the content check ran and
\* what it flagged.
ModeratorChain_check_intervention_needed(tm, count, speaker, content, score, now) ==
    IF content = "absent"
    THEN [reason |-> NoReason, tm |-> tm, count |-> count, ran |-> FALSE, needs |-> FALSE]
    ELSE LET timing == TimingTool_run(tm, speaker, "", now)   \* kwargs.get('stage') is None
             content_check == ContentModerationTool_run(content, count)
         IN  IF timing.status = "time_violation"
             THEN [reason |-> "Time limit exceeded", tm |-> timing.tm, count |-> count,
                   ran |-> FALSE, needs |-> FALSE]
             ELSE IF score = "low"
             THEN [reason |-> "Discussion off topic", tm |-> timing.tm, count |-> count,
                   ran |-> FALSE, needs |-> FALSE]
             ELSE IF content_check.needs_intervention
             THEN [reason |-> "Inappropriate content", tm |-> timing.tm,
                   count |-> content_check.count, ran |-> TRUE, needs |-> TRUE]
             ELSE [reason |-> NoReason, tm |-> timing.tm, count |-> content_check.count,
                   ran |-> TRUE, needs |-> FALSE]

\* ModeratorAgent._check_time_violation
ModeratorAgent_check_time_violation(start, stage, now) ==
    IF start = NoTime THEN FALSE ELSE now - start > TimeLimit(stage)

\* a check that looks at the time and the topic only
ModeratorAgent_check_without_counters(start, stage, adherence, inappropriate, interruptions, now) ==
    IF ModeratorAgent_check_time_violation(start, stage, now) THEN "Time limit exceeded"
    ELSE IF 2 * adherence < AdherenceOne THEN "Discussion off topic"
    ELSE NoReason

\* ModeratorAgent._check_intervention_needed on the debate state
ModeratorAgent_check_intervention(start, stage, adherence, inappropriate, interruptions, now) ==
    IF ModeratorAgent_check_time_violation(start, stage, now) THEN "Time limit exceeded"
    ELSE IF 2 * adherence < AdherenceOne THEN "Discussion off topic"
    ELSE IF inappropriate > 0 THEN "Inappropriate content"
    ELSE IF interruptions > 0 THEN "Speaker interruption"
    ELSE NoReason

\* a moderate result: hasMetadata says whether the dict has a "metadata" key
ModResult(content, hasMetadata, stage, error, reason) ==
    [content |-> content, hasMetadata |-> hasMetadata, stage |-> stage,
     error |-> error, reason |-> reason]

NoModResult == ModResult("", FALSE, "none", FALSE, NoReason)

NoCheck == [ran |-> FALSE, elapsed |-> NoTime, timing |-> FALSE, topic |-> FALSE,
            content |-> FALSE, interruption |-> FALSE, reason |-> NoReason,
            statement |-> "absent", contentRan |-> FALSE, needs |-> FALSE]

\* the time since the start of the current speaker, NoTime without one
Elapsed(start, now) == IF start = NoTime THEN NoTime ELSE now - start

\* no update of the topic score yet; scores are fractions num / den in units
\* of 1 / AdherenceOne
NoSample == [updated |-> FALSE, oldNum |-> 0, oldDen |-> 1, sample |-> 0, num |-> 0, den |-> 1]

\* the number the topic monitor reads from its generation call
TopicScore(score) == IF score = "low" THEN 0 ELSE AdherenceOne

\* TopicAdherenceTool._run: topic_scores after a score was appended
TopicAdherenceTool_run(topic, score) ==
    [sum |-> topic.sum + TopicScore(score), n |-> topic.n + 1]

ModIdle ==
    /\ mImpl = "chain"
    /\ mClock = 0
    /\ mStage = "not_started"
    /\ mLastSpeaker = ""
    /\ mSpeakerStart = NoTime
    /\ mTimer = [start |-> NoTime, times |-> [sp \in Speakers |-> NoTime]]
    /\ mInterventions = <<>>
    /\ mAdherence = AdherenceOne
    /\ mInappropriate = 0
    /\ mInterruptions = 0
    /\ mResult = NoModResult
    /\ mCheck = NoCheck
    /\ mOps = 0
    /\ mGen = "none"
    /\ mTopic = [sum |-> 0, n |-> 0]
    /\ mSample = NoSample
    /\ mNext = [n |-> 0, speaker |-> ""]

-----------------------------------------------------------------------------
-----------------------------------------------------------------------------
(* DebateChain / DebateAgent: the evaluation of the strength of a text. A    *)
(* text is the set of the marker phrases it contains; the empty string and   *)
(* every text without a marker are the empty set. Values are in tenths.      *)

MaxDebOps == 3

Phrases == {"research shows", "evidence suggests", "therefore", "however"}

EvalTexts == SUBSET Phrases

Bonus(found) == IF found THEN 1 ELSE 0

AtMostOne(v) == IF v > 10 THEN 10 ELSE v

\* DebateChain._calculate_confidence: the value returned
DebateChain_calculate_confidence(text) ==
    AtMostOne(7 + Bonus(text \cap {"research shows", "evidence suggests"} # {})
                + Bonus("therefore" \in text))

\* DebateChain._calculate_confidence: metrics after the call
DebateChain_calculate_confidence_metrics(metrics, text) ==
    IF text \cap {"research shows", "evidence suggests"} # {}
    THEN [metrics EXCEPT !.evidence_used = @ + 1]
    ELSE metrics

\* DebateAgent._evaluate_argument_strength
DebateAgent_evaluate_argument_strength(text) ==
    AtMostOne(7 + Bonus("research shows" \in text)
                + Bonus("therefore" \in text)
                + Bonus("however" \in text))

NoValue == 0 - 1

(* The analysis of an opponent argument. The response of the analysis call  *)
(* is given by what it lists under the headings of the prompt; the empty     *)
(* response lists nothing.                                                   *)

EmptyAnalysis == [claims |-> <<>>, evidence |-> <<>>, weaknesses |-> <<>>,
                  counter_points |-> <<>>]

AnalysisResponses ==
    { [raised |-> FALSE, text |-> "t", claims |-> <<"c">>, evidence |-> <<>>,
       weaknesses |-> <<"w">>, counter |-> <<"k">>],
      [raised |-> FALSE, text |-> "t", claims |-> <<"c", "c">>, evidence |-> <<"e">>,
       weaknesses |-> <<"w">>, counter |-> <<>>],
      [raised |-> FALSE, text |-> "Error generating response", claims |-> <<>>,
       evidence |-> <<>>, weaknesses |-> <<>>, counter |-> <<>>],
      [raised |-> FALSE, text |-> "", claims |-> <<>>, evidence |-> <<>>,
       weaknesses |-> <<>>, counter |-> <<>>] }

AnalysisRaise == [raised |-> TRUE, text |-> "", claims |-> <<>>, evidence |-> <<>>,
                  weaknesses |-> <<>>, counter |-> <<>>]

AnalysisOutcomes == AnalysisResponses \cup {AnalysisRaise}

Arguments == {"", "x"}

\* ArgumentAnalyzer._parse_analysis: the heading "Counter-points:" of the
\* prompt matches no section name, so the lines under it stay in the section
\* that was current, if there was one
ArgumentAnalyzer_parse_analysis(resp) ==
    LET last == IF resp.weaknesses # <<>> THEN "weaknesses"
                ELSE IF resp.evidence # <<>> THEN "evidence"
                ELSE IF resp.claims # <<>> THEN "claims"
                ELSE "none"
    IN  [claims |-> IF last = "claims" THEN resp.claims \o resp.counter ELSE resp.claims,
         evidence |-> IF last = "evidence" THEN resp.evidence \o resp.counter
                      ELSE resp.evidence,
         weaknesses |-> IF last = "weaknesses" THEN resp.weaknesses \o resp.counter
                        ELSE resp.weaknesses,
         counter_points |-> <<>>]

\* ArgumentAnalyzer.analyze
ArgumentAnalyzer_analyze(argument, aOut) ==
    IF aOut.raised THEN EmptyAnalysis ELSE ArgumentAnalyzer_parse_analysis(aOut)

\* DebateAgent._extract_claims: the sentences with a claim keyword, else the
\* whole text when there is one
DebateAgent_extract_claims(resp) ==
    IF resp.claims # <<>> THEN resp.claims
    ELSE IF resp.text = "" THEN <<>>
    ELSE <<resp.text>>

\* DebateAgent._analyze_opponent_argument with its keyword extractors
DebateAgent_analyze_opponent_argument(argument, aOut) ==
    IF argument = "" \/ aOut.raised
    THEN EmptyAnalysis
    ELSE [claims |-> DebateAgent_extract_claims(aOut), evidence |-> aOut.evidence,
          weaknesses |-> aOut.weaknesses, counter_points |-> aOut.counter]

\* counter_points[:3]
FirstThree(sq) == IF Len(sq) > 3 THEN SubSeq(sq, 1, 3) ELSE sq

\* f"{prefix}: {item}" for each item of a list
Prefixed(prefix, sq) == [i \in DOMAIN sq |-> <<prefix, sq[i]>>]

\* DebateAgent._generate_counter_points
DebateAgent_generate_counter_points(analysis) ==
    FirstThree(Prefixed("Counter to claim", analysis.claims)
               \o Prefixed("Challenge evidence", analysis.evidence)
               \o Prefixed("Exploit weakness", analysis.weaknesses))

NoRebuttal == [called |-> FALSE, argument |-> "", analysisOut |-> AnalysisRaise,
               analysis |-> EmptyAnalysis, out |-> Raise, content |-> "",
               counter_points |-> <<>>]

(* Goals *)
MaxGoalOps == 11

\* progress 1.0, in tenths
Full == 10

Roles == {"debater", "fact_checker", "moderator"}

\* the two goals every agent appends in its constructor: progress 0.0, achieved False
InitialGoals == [i \in 1..2 |-> [progress |-> 0, achieved |-> FALSE]]

\* the goals of an agent are named by their position in self.goals
GoalIds == 1..2

\* feedback: the goals named in achieved_goals and whether goal_progress is a key
Feedbacks == [achieved_goals : SUBSET GoalIds, goal_progress : BOOLEAN]

Statuses == {"Verified", "Misleading", "Unverified"}

\* an update of one goal that adds the step without the bound
BaseAgent_update_goal_unbounded(goal, id, feedback) ==
    IF id \in feedback.achieved_goals
    THEN [progress |-> Full, achieved |-> TRUE]
    ELSE IF feedback.goal_progress
    THEN [goal EXCEPT !.progress = goal.progress + 1]
    ELSE goal

\* BaseAgent._update_goals, the body of the loop for one goal
BaseAgent_update_goal(goal, id, feedback) ==
    IF id \in feedback.achieved_goals
    THEN [progress |-> Full, achieved |-> TRUE]
    ELSE IF feedback.goal_progress
    THEN [goal EXCEPT !.progress = IF goal.progress + 1 < Full THEN goal.progress + 1
                                   ELSE Full]
    ELSE goal

\* BaseAgent._update_goals
BaseAgent_update_goals(goals, feedback) ==
    [i \in GoalIds |-> BaseAgent_update_goal(goals[i], i, feedback)]

\* FactCheckerAgent._update_verification_goals
FactCheckerAgent_update_verification_goals(goals, status) ==
    [i \in GoalIds |->
        IF (i = 1 /\ status = "Verified") \/ (i = 2 /\ status = "Misleading")
        THEN [goals[i] EXCEPT !.progress = IF goals[i].progress + 1 < Full
                                           THEN goals[i].progress + 1
                                           ELSE Full]
        ELSE goals[i]]

GoalIdle ==
    /\ gRole = "debater"
    /\ gGoals = InitialGoals
    /\ gLast = "none"
    /\ gOps = 0

(* Session *)
MaxSessionOps == 3
MaxParseLines == 2

Debaters == {"Proponent", "Opponent"}

RoleNames == Debaters \cup {"Moderator", "FactChecker"}

\* DebateSystem.__init__ hands the one DebateMemory to all four chains: an
\* entry saved through any chain is in the memory every role holds
DebateMemory_save(memory, role) == [r \in RoleNames |-> memory[r] + 1]

\* BaseAgent._store_memory / FactCheckerAgent._store_verification_result:
\* self.memories is a list of the agent's own
BaseAgent_store_memory(memory, role) == [memory EXCEPT ![role] = @ + 1]

(* The response text of a verification as its lines: a line is its label   *)
(* ("Status", "Reasoning") and the text after the colon.                   *)
StatusTexts == {"Verified", "Misleading", "Unverified", "Maybe"}
ReasoningTexts == {"No sources found", "The figure is misleading", "Cannot be verified"}
ResponseLines == [label : {"Status"}, text : StatusTexts]
                     \cup [label : {"Reasoning"}, text : ReasoningTexts]

\* word in line.lower(), for the words the agents' parser looks for
str_mentions(word, text) ==
    CASE word = "verified"   -> text \in {"Verified", "Unverified", "Cannot be verified"}
      [] word = "misleading" -> text \in {"Misleading", "The figure is misleading"}
      [] word = "unverified" -> text = "Unverified"

NoStatus == "none"

(* ClaimVerifier._parse_verification: the status is the text after the     *)
(* colon of the last line that starts with 'Status:', 'Unverified' if none *)
RECURSIVE ClaimVerifier_parse_status(_, _)
ClaimVerifier_parse_status(lines, status) ==
    IF lines = <<>> THEN status
    ELSE ClaimVerifier_parse_status(Tail(lines),
             IF Head(lines).label = "Status" THEN Head(lines).text ELSE status)

(* FactCheckerAgent._parse_verification_response: every line is searched   *)
(* for 'verified', else 'misleading', else 'unverified'; the last line     *)
(* that holds one of them decides                                          *)
RECURSIVE FactCheckerAgent_parse_status(_, _)
FactCheckerAgent_parse_status(lines, status) ==
    IF lines = <<>> THEN status
    ELSE LET text == Head(lines).text
         IN  FactCheckerAgent_parse_status(Tail(lines),
                 IF str_mentions("verified", text) THEN "Verified"
                 ELSE IF str_mentions("misleading", text) THEN "Misleading"
                 ELSE IF str_mentions("unverified", text) THEN "Unverified"
                 ELSE status)

ParseIdle ==
    /\ pImpl = "chain"
    /\ pLines = <<>>
    /\ pStatus = NoStatus

MaxMemOps == 5

\* max_memories of _manage_memory_capacity, 1000 in the code, scaled down to
\* keep the store small
max_memories == 3

\* _calculate_importance is 0.5 at least and 1.0 at most
Importances == {50, 100}

\* the confidence of a verification, the importance of its memory
Confidences == {0, 90}

\* BaseAgent._manage_memory_capacity: sort by importance, keep the last
\* max_memories
BaseAgent_manage_memory_capacity(mem) ==
    IF Len(mem) > max_memories
    THEN LET sorted == SortSeq(mem, LAMBDA a, b : a < b)
         IN  [kept |-> SubSeq(sorted, Len(mem) - max_memories + 1, Len(mem)),
              removed |-> SubSeq(sorted, 1, Len(mem) - max_memories)]
    ELSE [kept |-> mem, removed |-> <<>>]

MemIdle ==
    /\ memRole = "debater"
    /\ memories = <<>>
    /\ memRemoved = <<>>
    /\ memOps = 0

UnitIdle ==
    /\ ParseIdle
    /\ MemIdle

SessIdle ==
    /\ sImpl = "chain"
    /\ sArgs = [d \in Debaters |-> 0]
    /\ sOpp = [d \in Debaters |-> 0]
    /\ sStage = "introduction"
    /\ sCache = {}
    /\ sMemory = [r \in RoleNames |-> 0]
    /\ sLast = "none"
    /\ sOps = 0

DebIdle ==
    /\ dImpl = "chain"
    /\ dMetrics = [arguments_made |-> 0, evidence_used |-> 0, counter_points_addressed |-> 0]
    /\ dArgs = <<>>
    /\ dText = {}
    /\ dValue = NoValue
    /\ dReturned = [t \in EvalTexts |-> {}]
    /\ dOps = 0
    /\ dOpponent = <<>>
    /\ dRebuttal = NoRebuttal
    /\ dCalls = <<>>

NoAnalytics == [called |-> FALSE, at |-> 0, raised |-> FALSE, interventions |-> 0,
                fact_checks |-> 0]

Init ==
    /\ impl \in Impls
    /\ rounds \in 0..MaxRounds
    /\ impl = "app" => rounds >= 1
    /\ factCheck \in BOOLEAN
    /\ pc = "intro"
    /\ turn = 1
    /\ round = 0
    /\ log = <<>>
    /\ argsMade = [d \in {"Proponent", "Opponent"} |-> <<>>]
    /\ rebCalls = <<>>
    /\ fcCalls = <<>>
    /\ genFails = 0
    /\ crashed = FALSE
    /\ modStage = "not_started"
    /\ openResp = [d \in {"Proponent", "Opponent"} |-> "none"]
    /\ clock = 0
    /\ analytics = NoAnalytics
    /\ checks = <<>>
    /\ FcIdle
    /\ ModIdle
    /\ DebIdle
    /\ GoalIdle
    /\ SessIdle
    /\ UnitIdle

Config == UNCHANGED <<impl, rounds, factCheck, analytics, fcVars, modVars, debVars, goalVars,
                      sessVars, unitVars>>

\* what the turns other than the rebuttals leave alone
NoChecks == UNCHANGED checks

\* a loop that runs once more than range(n)
range_has_next_inclusive(i, n) == i <= n

\* a loop that runs its body once more than range(n)
range_has_next_one_more(i, n) == i < n + 1

\* for _ in range(n): after i completed iterations the body runs again iff i < n
range_has_next(i, n) == i < n

Fail(out) == IF out = Raise THEN 1 ELSE 0

\* a driver that calls the fact checker and drops its result
WithFactCheck_dropped(l, stmt, fc, t) == l

\* the fact check of a statement just logged in l: the log and the call history after it
WithFactCheck(l, stmt, fc, t) ==
    IF factCheck THEN log_event(l, "FACT_CHECK", fc, EmptyMeta, t) ELSE l

FcCallsAfter(l, stmt) ==
    IF factCheck THEN Append(fcCalls, [stmt |-> stmt, at |-> Len(l) + 1]) ELSE fcCalls

(* run_debate, lines 48-50 (and the handler of lines 122-124) *)
ChainIntro ==
    /\ impl = "chain" /\ pc = "intro"
    /\ \E out \in GenOutcomes, t1 \in Later(clock) :
         LET intro == ModeratorChain_moderate("introduction", out)
         IN  /\ clock' = t1
             /\ genFails' = genFails + Fail(out)
             /\ IF intro.hasMetadata
                THEN /\ log' = log_event(log, "MODERATOR", intro.content, intro.metadata, t1)
                     /\ pc' = "opening"
                     /\ crashed' = FALSE
                ELSE \* intro["metadata"] raises KeyError: except handler
                     /\ log' = log_event(log, "ERROR", "'metadata'", EmptyMeta, t1)
                     /\ pc' = "done"
                     /\ crashed' = TRUE
    /\ turn' = 1
    /\ modStage' = "introduction"
    /\ UNCHANGED <<round, argsMade, rebCalls, openResp, fcCalls>>
    /\ NoChecks
    /\ Config

(* run_debate, lines 52-59 *)
ChainOpening ==
    /\ impl = "chain" /\ pc = "opening"
    /\ \E out \in OpeningOutcomes, fc \in FCResults, t1 \in Later(clock) : \E t2 \in Later(t1) :
         LET d == Order[turn]
             statement == DebateChain_generate_opening(out)
             l1 == log_event(log, Upper(d), statement.content, statement.metadata, t1)
         IN  /\ clock' = t2
             /\ log' = WithFactCheck(l1, statement.content, fc, t2)
             /\ fcCalls' = FcCallsAfter(l1, statement.content)
             /\ argsMade' = [argsMade EXCEPT ![d] =
                    IF statement.ok THEN Append(@, Made("opening", statement)) ELSE @]
             /\ genFails' = genFails + Fail(out)
             /\ openResp' = [openResp EXCEPT ![d] = out]
    /\ IF turn = 1
       THEN /\ turn' = 2
            /\ UNCHANGED <<pc, round>>
       ELSE /\ turn' = 1
            /\ pc' = IF range_has_next(0, rounds) THEN "rebuttal" ELSE "closing"
            /\ round' = IF range_has_next(0, rounds) THEN 1 ELSE 0
    /\ UNCHANGED <<rebCalls, crashed, modStage>>
    /\ NoChecks
    /\ Config

(* run_debate, lines 62-93 and the handler of lines 122-124 *)
ChainRebuttal ==
    /\ impl = "chain" /\ pc = "rebuttal"
    /\ \E out \in GenOutcomes, fc \in FCResults, t1 \in Later(clock) : \E t2 \in Later(t1) :
         LET debater == Order[turn]
             opponent == Other(debater)
             last_argument == LastArgument(log, opponent)
             rebuttal == DebateChain_generate_rebuttal(last_argument, out)
             l1 == log_event(log, RebuttalType(debater), rebuttal.content, rebuttal.metadata, t1)
             l2 == WithFactCheck(l1, rebuttal.content, fc, t2)
             intervention == ModeratorChain_moderate("intervention", Raise)
         IN  /\ clock' = t2
             /\ rebCalls' = Append(rebCalls,
                    [speaker |-> debater, previous |-> last_argument, round |-> round])
             /\ checks' = Append(checks, [round |-> round, after |-> debater])
             /\ fcCalls' = FcCallsAfter(l1, rebuttal.content)
             /\ argsMade' = [argsMade EXCEPT ![debater] =
                    IF rebuttal.ok THEN Append(@, Made("rebuttal", rebuttal)) ELSE @]
             /\ genFails' = genFails + Fail(out)
             /\ IF intervention.content # "" /\ ~intervention.hasMetadata
                THEN \* intervention["metadata"] raises KeyError: except handler
                     /\ log' = log_event(l2, "ERROR", "'metadata'", EmptyMeta, t2)
                     /\ pc' = "done"
                     /\ crashed' = TRUE
                     /\ UNCHANGED <<turn, round>>
                ELSE /\ log' = IF intervention.content # ""
                               THEN log_event(l2, "MODERATOR", intervention.content,
                                              intervention.metadata, t2)
                               ELSE l2
                     /\ crashed' = FALSE
                     /\ IF turn = 1
                        THEN /\ turn' = 2
                             /\ UNCHANGED <<pc, round>>
                        ELSE /\ turn' = 1
                             /\ IF range_has_next(round, rounds)
                                THEN /\ round' = round + 1
                                     /\ UNCHANGED pc
                                ELSE /\ pc' = "closing"
                                     /\ UNCHANGED round
    /\ modStage' = "intervention"
    /\ UNCHANGED openResp
    /\ Config

(* run_debate, lines 95-106 *)
ChainClosing ==
    /\ impl = "chain" /\ pc = "closing"
    /\ \E out \in GenOutcomes, fc \in FCResults, t1 \in Later(clock) : \E t2 \in Later(t1) :
         LET d == Order[turn]
             closing == DebateChain_generate_closing(out)
             l1 == log_event(log, ClosingType(d), closing.content, closing.metadata, t1)
         IN  /\ clock' = t2
             /\ log' = WithFactCheck(l1, closing.content, fc, t2)
             /\ fcCalls' = FcCallsAfter(l1, closing.content)
             /\ argsMade' = [argsMade EXCEPT ![d] =
                    IF closing.ok THEN Append(@, Made("closing", closing)) ELSE @]
             /\ genFails' = genFails + Fail(out)
    /\ IF turn = 1
       THEN /\ turn' = 2
            /\ UNCHANGED pc
       ELSE /\ turn' = 1
            /\ pc' = "modclosing"
    /\ UNCHANGED <<round, rebCalls, openResp, crashed, modStage>>
    /\ NoChecks
    /\ Config

(* run_debate, lines 108-120 (and the handler of lines 122-124) *)
ChainModClosing ==
    /\ impl = "chain" /\ pc = "modclosing"
    /\ \E out \in GenOutcomes, t1 \in Later(clock) :
         LET closing == ModeratorChain_moderate("closing", out)
         IN  /\ clock' = t1
             /\ genFails' = genFails + Fail(out)
             /\ IF closing.hasMetadata
                THEN /\ log' = log_event(log, "MODERATOR", closing.content, closing.metadata, t1)
                     /\ crashed' = FALSE
                ELSE \* closing["metadata"] raises KeyError: except handler
                     /\ log' = log_event(log, "ERROR", "'metadata'", EmptyMeta, t1)
                     /\ crashed' = TRUE
    /\ pc' = "done"
    /\ modStage' = "closing"
    /\ UNCHANGED <<turn, round, argsMade, rebCalls, openResp, fcCalls>>
    /\ NoChecks
    /\ Config

-----------------------------------------------------------------------------
(* The agents package: ModeratorAgent, HFInferenceLLM, DebateAgent *)

\* HFInferenceLLM.__call__: an exception of the client becomes a text
HFInferenceLLM(out) == IF out = Raise THEN "Error generating response" ELSE out

\* ModeratorAgent._check_intervention_needed on the debate_state main() leaves
\* untouched: last_speaker_start is None, topic_adherence_score is 1.0,
\* inappropriate_content_count and interruptions are 0.
ModeratorAgent_check_intervention_needed ==
    ModeratorAgent_check_intervention(NoTime, "intervention", AdherenceOne, 0, 0, 0)

\* ModeratorAgent.moderate: always a dict (isStr FALSE) with content and metadata
ModeratorAgent_moderate(stage, resp) ==
    IF stage = "intervention" /\ ModeratorAgent_check_intervention_needed = "None"
    THEN [isStr |-> FALSE, content |-> "",
          metadata |-> StageMeta("intervention", FALSE)]
    ELSE IF resp = Raise
    THEN [isStr |-> FALSE, content |-> "Error generating: E",
          metadata |-> StageMeta(stage, TRUE)]
    ELSE [isStr |-> FALSE, content |-> resp, metadata |-> StageMeta(stage, FALSE)]

\* DebateSystem.validate_content calls content.lower(): defined for a str only,
\* AttributeError for the dict the moderator returns
validate_content_raises(content) == ~content.isStr

\* the outcomes of the completion call an opening or closing statement makes
\* when the response is shorter than the minimum word count; a text of Texts
\* stands for a response of full length, so only the empty response is short
Completions(out) == IF out = "" THEN {"a", "", Raise} ELSE {""}

\* DebateAgent._generate_completion on the response of its llm call
DebateAgent_generate_completion(completion) ==
    IF completion \in {"", Raise} THEN "." ELSE completion

\* f"{response} {completion}".strip() for an empty response and a completion
\* that is not empty
strip_joined(response, completion) == completion

\* DebateAgent.generate_opening_statement / generate_rebuttal /
\* generate_closing_statement on the response of the llm and, for a short
\* opening or closing, on the response of the completion call
DebateAgent_generate(kind, resp, completion) ==
    IF resp = Raise
    THEN [content |-> "Error generating statement: E", ok |-> FALSE]
    ELSE IF resp = "" /\ kind # "rebuttal"
    THEN [content |-> strip_joined(resp, DebateAgent_generate_completion(completion)),
          ok |-> TRUE]
    ELSE [content |-> resp, ok |-> TRUE]

(* run_debate_round, lines 42-46 and the handler of lines 110-112: the      *)
(* introduction is a dict, validate_content raises on it, the handler       *)
(* reports through st.error and returns the log as it is. Nothing after     *)
(* line 45 is ever executed.                                                 *)
AgentsIntro ==
    /\ impl = "agents" /\ pc = "intro"
    /\ \E out \in GenOutcomes, t1 \in Later(clock) :
         LET intro == ModeratorAgent_moderate("introduction", HFInferenceLLM(out))
         IN  /\ clock' = t1
             /\ IF validate_content_raises(intro)
                THEN /\ crashed' = TRUE
                     /\ UNCHANGED log
                ELSE /\ crashed' = FALSE
                     /\ log' = log_event(log, "MODERATOR", intro.content, EmptyMeta, t1)
    /\ pc' = "done"
    /\ modStage' = "introduction"
    /\ UNCHANGED <<turn, round, argsMade, rebCalls, openResp, fcCalls, genFails>>
    /\ NoChecks
    /\ Config

-----------------------------------------------------------------------------
(* main() of the streamlit script main.py: statements are rendered, not     *)
(* logged; the debaters keep them in arguments_made.                         *)

(* main, lines 180-183 *)
AppIntro ==
    /\ impl = "app" /\ pc = "intro"
    /\ pc' = "opening"
    /\ turn' = 1
    /\ modStage' = "introduction"
    /\ UNCHANGED <<round, log, argsMade, rebCalls, openResp, fcCalls, genFails, crashed>>
    /\ UNCHANGED clock
    /\ NoChecks
    /\ Config

(* main, lines 186-197 *)
AppOpening ==
    /\ impl = "app" /\ pc = "opening"
    /\ \E out \in OpeningOutcomes : \E completion \in Completions(out) :
         LET agent == Order[turn]
             statement == DebateAgent_generate("opening", HFInferenceLLM(out),
                                               HFInferenceLLM(completion))
         IN  /\ openResp' = [openResp EXCEPT ![agent] = HFInferenceLLM(out)]
             /\ argsMade' = [argsMade EXCEPT ![agent] =
                    IF statement.ok THEN Append(@, Made("opening", statement)) ELSE @]
             /\ fcCalls' = IF factCheck
                           THEN Append(fcCalls, [stmt |-> statement.content, at |-> 0])
                           ELSE fcCalls
    /\ IF turn = 1
       THEN /\ turn' = 2
            /\ UNCHANGED <<pc, round>>
       ELSE /\ turn' = 1
            /\ pc' = "rebuttal"
            /\ round' = 1
    /\ UNCHANGED <<log, rebCalls, genFails, crashed, modStage>>
    /\ UNCHANGED clock
    /\ NoChecks
    /\ Config

\* main, line 205: the statement handed to generate_rebuttal
AppOpponentStatement(made, agent) ==
    IF made["Opponent"] # <<>>
    THEN made["Opponent"][Len(made["Opponent"])].content
    ELSE ""

(* main, lines 200-230 *)
AppRebuttal ==
    /\ impl = "app" /\ pc = "rebuttal"
    /\ \E out \in GenOutcomes :
         LET agent == Order[turn]
             opponent_statement == AppOpponentStatement(argsMade, agent)
             rebuttal == DebateAgent_generate("rebuttal", HFInferenceLLM(out), "")
             intervention == ModeratorAgent_moderate("intervention", Raise)
         IN  /\ rebCalls' = Append(rebCalls,
                    [speaker |-> agent, previous |-> opponent_statement, round |-> round])
             /\ checks' = Append(checks, [round |-> round, after |-> agent])
             /\ argsMade' = [argsMade EXCEPT ![agent] =
                    IF rebuttal.ok THEN Append(@, Made("rebuttal", rebuttal)) ELSE @]
             /\ fcCalls' = IF factCheck
                           THEN Append(fcCalls, [stmt |-> rebuttal.content, at |-> 0])
                           ELSE fcCalls
             /\ intervention.content = ""
    /\ IF turn = 1
       THEN /\ turn' = 2
            /\ UNCHANGED <<pc, round>>
       ELSE /\ turn' = 1
            /\ IF range_has_next(round, rounds)
               THEN /\ round' = round + 1
                    /\ UNCHANGED pc
               ELSE /\ pc' = "closing"
                    /\ UNCHANGED round
    /\ modStage' = "intervention"
    /\ UNCHANGED <<log, genFails, crashed>>
    /\ UNCHANGED openResp
    /\ UNCHANGED clock
    /\ Config

(* main, lines 233-242 *)
AppClosing ==
    /\ impl = "app" /\ pc = "closing"
    /\ \E out \in GenOutcomes : \E completion \in Completions(out) :
         LET agent == Order[turn]
             closing == DebateAgent_generate("closing", HFInferenceLLM(out),
                                             HFInferenceLLM(completion))
         IN  /\ argsMade' = [argsMade EXCEPT ![agent] =
                    IF closing.ok THEN Append(@, Made("closing", closing)) ELSE @]
             /\ fcCalls' = IF factCheck
                           THEN Append(fcCalls, [stmt |-> closing.content, at |-> 0])
                           ELSE fcCalls
    /\ IF turn = 1
       THEN /\ turn' = 2
            /\ UNCHANGED pc
       ELSE /\ turn' = 1
            /\ pc' = "modclosing"
    /\ UNCHANGED <<round, log, rebCalls, openResp, genFails, crashed, modStage>>
    /\ UNCHANGED clock
    /\ NoChecks
    /\ Config

(* main, lines 244-267 *)
AppModClosing ==
    /\ impl = "app" /\ pc = "modclosing"
    /\ pc' = "done"
    /\ modStage' = "closing"
    /\ UNCHANGED <<turn, round, log, argsMade, rebCalls, openResp, fcCalls, genFails, crashed>>
    /\ UNCHANGED clock
    /\ NoChecks
    /\ Config

\* "intervention" in str(e["metadata"]): the metadata of an intervention has
\* the stage 'intervention', the metadata of the moderator's closing has the
\* key 'interventions', the error metadata has the stage it was called with
str_has_intervention(metadata) ==
    \/ metadata.stage = "intervention"
    \/ metadata.stage = "closing" /\ ~metadata.error

\* DebateSystem.get_analytics on a log: the two counts, or IndexError on
\* debate_log[0] of an empty log
DebateSystem_get_analytics(l) ==
    IF l = <<>>
    THEN [called |-> TRUE, at |-> 0, raised |-> TRUE, interventions |-> 0, fact_checks |-> 0]
    ELSE [called |-> TRUE, at |-> Len(l), raised |-> FALSE,
          interventions |->
              Len(SelectSeq(l, LAMBDA e : e.type = "MODERATOR"
                                          /\ str_has_intervention(e.metadata))),
          fact_checks |-> Len(SelectSeq(l, LAMBDA e : e.type = "FACT_CHECK"))]

(* DebateSystem.get_analytics(), called on the new system or after         *)
(* run_debate has returned; the IndexError of the first goes to the        *)
(* caller, and the session has failed without a run                        *)
ChainGetAnalytics ==
    /\ impl = "chain" /\ pc \in {"intro", "done"}
    /\ ~analytics.called
    /\ analytics' = DebateSystem_get_analytics(log)
    /\ pc' = IF log = <<>> THEN "failed" ELSE pc
    /\ UNCHANGED <<impl, rounds, factCheck, turn, round, log, argsMade, rebCalls,
                   fcCalls, genFails, crashed, modStage, openResp, clock, checks>>
    /\ UNCHANGED <<fcVars, modVars, debVars, goalVars, sessVars, unitVars>>

Next ==
    \/ ChainGetAnalytics
    \/ ChainIntro
    \/ ChainOpening
    \/ ChainRebuttal
    \/ ChainClosing
    \/ ChainModClosing
    \/ AgentsIntro
    \/ AppIntro
    \/ AppOpening
    \/ AppRebuttal
    \/ AppClosing
    \/ AppModClosing

Spec == Init /\ [][Next]_vars

(* run_debate / run_debate_round is one sequential call: every call it     *)
(* makes returns, so its next step is always taken. get_analytics is a     *)
(* call of the user and need not happen.                                    *)
run_debate ==
    \/ ChainIntro
    \/ ChainOpening
    \/ ChainRebuttal
    \/ ChainClosing
    \/ ChainModClosing
    \/ AgentsIntro
    \/ AppIntro
    \/ AppOpening
    \/ AppRebuttal
    \/ AppClosing
    \/ AppModClosing

SpecRun == Spec /\ WF_vars(run_debate)

-----------------------------------------------------------------------------
(* Properties of the session log *)

\* the drivers that keep a debate log
HasLog == impl \in {"chain", "agents"}

DebaterTypes == {"PROPONENT", "OPPONENT", "PROPONENT_REBUTTAL", "OPPONENT_REBUTTAL",
                 "PROPONENT_CLOSING", "OPPONENT_CLOSING"}

IsIntervention(e) == e.type = "MODERATOR" /\ e.metadata.stage = "intervention"

Types(l) == [i \in 1..Len(l) |-> l[i].type]

\* the log without FACT_CHECK and intervention events
Core(l) == SelectSeq(l, LAMBDA e : e.type # "FACT_CHECK" /\ ~IsIntervention(e))

NonFactCheck(l) == SelectSeq(l, LAMBDA e : e.type # "FACT_CHECK")

CountType(l, t) == Len(SelectSeq(l, LAMBDA e : e.type = t))

RECURSIVE RoundTypes(_)
RoundTypes(n) ==
    IF n = 0 THEN <<>>
    ELSE <<"PROPONENT_REBUTTAL", "OPPONENT_REBUTTAL">> \o RoundTypes(n - 1)

ExpectedTypes(n) ==
    <<"MODERATOR", "PROPONENT", "OPPONENT">> \o RoundTypes(n)
        \o <<"PROPONENT_CLOSING", "OPPONENT_CLOSING", "MODERATOR">>

\* C1: when every generation call succeeds, the log returned by run_debate,
\* without its FACT_CHECK and intervention events, is the introduction, the two
\* openings, rounds times (Proponent rebuttal, Opponent rebuttal), the two
\* closings and the moderator closing, which is the last event of the log.
C1_FullSequenceWhenGenerationSucceeds ==
    (impl = "chain" /\ pc = "done" /\ genFails = 0) =>
        /\ Types(Core(log)) = ExpectedTypes(rounds)
        /\ log[1].metadata.stage = "introduction"
        /\ log[Len(log)].type = "MODERATOR"
        /\ log[Len(log)].metadata.stage = "closing"

\* C2: in every session, once the driver's first step is over, the debate log
\* has a first event and it is the moderator's introduction event, whatever
\* the generator returned.
C2_FirstEventIsIntroduction ==
    (HasLog /\ pc # "intro") =>
        /\ log # <<>>
        /\ log[1].type = "MODERATOR"
        /\ log[1].metadata.stage = "introduction"

\* C3: a turn whose generation fails is logged as an ERROR event, and every
\* scheduled turn (6 + 2 * rounds of them) is executed and logged.
C3_FailedTurnLoggedAsErrorAndLoopContinues ==
    (impl = "chain" /\ pc = "done") =>
        /\ CountType(log, "ERROR") = genFails
        /\ Len(Core(log)) = 6 + 2 * rounds

\* C4: with 0 rebuttal rounds run_debate logs exactly 6 events that are not
\* FACT_CHECK events: introduction, two openings, two closings, moderator
\* closing; FACT_CHECK events appear only if fact checking is enabled; there
\* is no rebuttal, intervention or ERROR event.
C4_ZeroRoundsSixCoreEvents ==
    (impl = "chain" /\ rounds = 0 /\ pc = "done") =>
        LET core == NonFactCheck(log)
        IN  /\ Types(core) = <<"MODERATOR", "PROPONENT", "OPPONENT",
                               "PROPONENT_CLOSING", "OPPONENT_CLOSING", "MODERATOR">>
            /\ core[1].metadata.stage = "introduction"
            /\ core[6].metadata.stage = "closing"
            /\ ~factCheck => Len(log) = 6
            /\ ~crashed

\* C4 witness: a finished session of 0 rounds in which some generation failed
C4_Witness ==
    /\ impl = "chain" /\ rounds = 0 /\ pc = "done"
    /\ genFails > 0

\* C5: with fact checking enabled every debater event of the log is
\* immediately followed by exactly one FACT_CHECK event, the result of the
\* check_statement call on that event's content, and every FACT_CHECK event
\* follows a debater event; with fact checking disabled the log holds no
\* FACT_CHECK event.
C5_FactCheckFollowsEachTurn ==
    HasLog =>
        IF factCheck
        THEN /\ \A i \in 1..Len(log) :
                   log[i].type \in DebaterTypes =>
                       /\ i < Len(log)
                       /\ log[i + 1].type = "FACT_CHECK"
                       /\ \E k \in 1..Len(fcCalls) :
                              /\ fcCalls[k].at = i + 1
                              /\ fcCalls[k].stmt = log[i].content
             /\ \A i \in 1..Len(log) :
                   log[i].type = "FACT_CHECK" =>
                       /\ i > 1
                       /\ log[i - 1].type \in DebaterTypes
             /\ CountType(log, "FACT_CHECK") = Len(fcCalls)
        ELSE CountType(log, "FACT_CHECK") = 0

\* C5 witness: a fact-checked rebuttal in the log
C5_Witness ==
    /\ impl = "chain" /\ factCheck
    /\ \E i \in 1..Len(log) : log[i].type = "PROPONENT_REBUTTAL"

\* position of the Opponent's opening event in the log of run_debate
ConOpeningIndex == IF factCheck THEN 4 ELSE 3

\* C6: the previous argument given to the Proponent's first rebuttal is the
\* content of the Opponent's opening event, with and without fact checking.
C6_FirstRebuttalAgainstConOpening ==
    (HasLog /\ rebCalls # <<>>) =>
        /\ rebCalls[1].speaker = "Proponent"
        /\ log[ConOpeningIndex].type = "OPPONENT"
        /\ rebCalls[1].previous = log[ConOpeningIndex].content

\* C6 witness: the first rebuttal was called without fact checking after two
\* openings of different content
C6_Witness ==
    /\ impl = "chain" /\ ~factCheck /\ rebCalls # <<>>
    /\ log[2].content # log[3].content

LastContent(made) == IF made # <<>> THEN made[Len(made)].content ELSE ""

\* the latest statement of debater d: its last logged opening or rebuttal
\* (run_debate), its last entry of arguments_made (main)
LatestStatement(d) ==
    IF impl = "app"
    THEN LastContent(argsMade[d])
    ELSE LastContent(SelectSeq(log, LAMBDA e : e.type \in {Upper(d), RebuttalType(d)}))

\* C7: every rebuttal is generated against the latest statement of the
\* speaker's opponent (the state before the call decides which it is).
C7_RebuttalAgainstOpponentLatest ==
    [][rebCalls' # rebCalls =>
          LET c == rebCalls'[Len(rebCalls')]
          IN  c.previous = LatestStatement(Other(c.speaker))]_vars

\* C9: when the driver ends through its exception handler, the log it returns
\* ends with an ERROR event, the only ERROR event of the log.
C9_AbortLeavesTrailingErrorEvent ==
    (HasLog /\ pc = "done" /\ crashed) =>
        /\ log # <<>>
        /\ log[Len(log)].type = "ERROR"
        /\ CountType(log, "ERROR") = 1

\* C13: in the drivers the intervention check never finds a violation
\* (run_debate passes no statement to it, main leaves the moderator state as
\* constructed), so every intervention call yields empty content: after it the
\* log holds no intervention event and no ERROR event, and the session has not
\* been aborted.
C13_NoInterventionWithoutReason ==
    (impl \in {"chain", "app"} /\ modStage = "intervention") =>
        /\ ~crashed
        /\ CountType(log, "ERROR") = 0
        /\ \A i \in 1..Len(log) : ~IsIntervention(log[i])

\* the error strings an opening call returns
OpeningErrorTexts == {"Error generating opening: E", "Error generating statement: E"}

\* the opening event of debater d: its first statement in the log
OpeningEvent(d) ==
    log[CHOOSE i \in 1..Len(log) :
            /\ log[i].type = Upper(d)
            /\ \A j \in 1..(i - 1) : log[j].type # Upper(d)]

\* C15: an opening whose generation call returned the empty text is returned
\* and logged as the error string of the opening, with metadata.error true;
\* where the statements are kept by the debater instead of logged, no opening
\* other than the error string is kept for it.
C15_EmptyOpeningBecomesErrorStatement ==
    \A d \in {"Proponent", "Opponent"} :
        openResp[d] = "" =>
            /\ impl = "chain" =>
                 /\ OpeningEvent(d).content \in OpeningErrorTexts
                 /\ OpeningEvent(d).metadata.error
            /\ impl = "app" =>
                 \A i \in 1..Len(argsMade[d]) :
                     argsMade[d][i].type = "opening" =>
                         argsMade[d][i].content \in OpeningErrorTexts

\* C16: the debate log is append-only: every step of a session leaves the
\* events already logged (kind, content, metadata, timestamp) in place and in
\* order, and adds the events it logs, one per append, after them.
C16_LogAppendOnly ==
    [][/\ Len(log') >= Len(log)
       /\ Len(log') <= Len(log) + 3
       /\ SubSeq(log', 1, Len(log)) = log]_vars

C16_Witness ==
    /\ impl = "chain" /\ pc = "done" /\ ~crashed
    /\ Len(log) >= 6

\* C17: the timestamps of the debate log are non-decreasing in log order.
C17_TimestampsNonDecreasing ==
    \A i \in 1..Len(log) : \A j \in i..Len(log) :
        log[i].timestamp <= log[j].timestamp

C17_Witness ==
    /\ Len(log) >= 3
    /\ log[1].timestamp < log[Len(log)].timestamp
    /\ \E i \in 1..(Len(log) - 1) : log[i].timestamp = log[i + 1].timestamp

\* C27: get_analytics changes nothing, and the fact-check count and the
\* intervention count it returns are the numbers of FACT_CHECK events and of
\* moderator intervention events in the log at the time of the call.
C27_AnalyticsCountsMatchLog ==
    analytics.called =>
        /\ ~analytics.raised
        /\ analytics.fact_checks = CountType(SubSeq(log, 1, analytics.at), "FACT_CHECK")
        /\ analytics.interventions =
               Len(SelectSeq(SubSeq(log, 1, analytics.at), IsIntervention))

\* C29: in each rebuttal round the intervention check runs once, after the
\* rebuttals of both debaters: the i-th check follows the Opponent's rebuttal
\* of round i, and a session past its N rounds has made N checks.
C29_OneCheckPerRound ==
    /\ \A i \in 1..Len(checks) : checks[i].round = i /\ checks[i].after = "Opponent"
    /\ (pc \in {"closing", "modclosing"} /\ ~crashed) => Len(checks) = rounds

\* no debater has more than one opening or closing in the log, nor more
\* rebuttals than there are rounds
NoTurnRepeats ==
    \A d \in {"Proponent", "Opponent"} :
        /\ CountType(log, Upper(d)) <= 1
        /\ CountType(log, ClosingType(d)) <= 1
        /\ CountType(log, RebuttalType(d)) <= rounds

(* C38: for every number of rebuttal rounds and every pattern of generator *)
(* results (text, empty text, raised failure) run_debate terminates and    *)
(* returns the debate log: no sequence of failures makes a turn repeat or  *)
(* the loop run past the configured number of rounds                       *)
C38_RunDebateTerminates ==
    /\ [](HasLog => (round <= rounds /\ NoTurnRepeats))
    /\ (HasLog /\ pc = "intro") ~> (pc \in {"done", "failed"})

\* a run that returned after its moderator's closing with two generator failures
C38_Witness ==
    /\ HasLog /\ pc = "done" /\ ~crashed /\ genFails >= 2

-----------------------------------------------------------------------------
(* A fact-checker instance under a sequence of check_statement calls *)

OrchIdle ==
    /\ impl = "chain"
    /\ rounds = 0
    /\ factCheck = FALSE
    /\ pc = "done"
    /\ turn = 1
    /\ round = 0
    /\ log = <<>>
    /\ argsMade = [d \in {"Proponent", "Opponent"} |-> <<>>]
    /\ rebCalls = <<>>
    /\ fcCalls = <<>>
    /\ genFails = 0
    /\ crashed = FALSE
    /\ modStage = "not_started"
    /\ openResp = [d \in {"Proponent", "Opponent"} |-> "none"]
    /\ clock = 0
    /\ analytics = NoAnalytics
    /\ checks = <<>>

InitFC ==
    /\ OrchIdle
    /\ ModIdle
    /\ DebIdle
    /\ GoalIdle
    /\ SessIdle
    /\ UnitIdle
    /\ fcImpl \in {"chain", "agents"}
    /\ verified = [c \in Claims |-> NotCached]
    /\ verifyCalls = [c \in Claims |-> 0]
    /\ seen = {}
    /\ lastResult = NoResult
    /\ given = [c \in Claims |-> {}]
    /\ nChecks = 0
    /\ lastCall = NoCall

SeenAfter(claims) == seen \cup {claims[i] : i \in 1..Len(claims)}

\* the per-claim results handed out so far, after the results of one more statement
GivenAfter(results) ==
    [c \in Claims |-> given[c] \cup
        { [status |-> results[i].status, confidence |-> results[i].confidence] :
            i \in {j \in 1..Len(results) : results[j].claim = c} }]

CallHistory(which, claims, outs) ==
    [claims |-> claims,
     issued |-> IssuedAt(which, [cache |-> verified, calls |-> verifyCalls],
                         claims, outs, 1, <<>>),
     outs |-> outs]

\* the outcomes of the generation calls a statement's claims can lead to: no
\* call is issued for a claim that is cached when check_statement is entered,
\* so its entry is left at one value
OutcomeChoices(claims) ==
    {outs \in [1..Len(claims) -> VerOutcomes] :
        \A i \in 1..Len(claims) : verified[claims[i]] # NotCached => outs[i] = VerRaise}

(* FactCheckerChain.check_statement: extraction (a failed extraction yields *)
(* no claims), verification of each claim, aggregation                       *)
ChainCheckStatement ==
    /\ fcImpl = "chain" /\ nChecks < MaxChecks
    /\ \E claims \in ClaimLists :
         \E outs \in OutcomeChoices(claims) :
           \E r \in {VerifyAll("chain", [cache |-> verified, calls |-> verifyCalls],
                                claims, outs, 1, <<>>)} :
               /\ verified' = r.cache
               /\ verifyCalls' = r.calls
               /\ lastResult' = AggregateResults("chain", r.results)
               /\ seen' = SeenAfter(claims)
               /\ given' = GivenAfter(r.results)
               /\ lastCall' = CallHistory("chain", claims, outs)
    /\ nChecks' = nChecks + 1
    /\ UNCHANGED <<fcImpl, orchVars, modVars, debVars, goalVars, sessVars, unitVars>>

(* FactCheckerAgent.check_statement (the definition of lines 222-254) *)
AgentsCheckStatement ==
    /\ fcImpl = "agents" /\ nChecks < MaxChecks
    /\ \E claims \in ClaimLists :
         \E outs \in OutcomeChoices(claims) :
           IF claims = <<>>
           THEN /\ lastResult' = [overall_accuracy |-> "No verifiable claims found",
                                  sum |-> 0, n |-> 0, details |-> <<>>]
                /\ lastCall' = NoCall
                /\ UNCHANGED <<verified, verifyCalls, seen, given>>
           ELSE \E r \in {VerifyAll("agents", [cache |-> verified, calls |-> verifyCalls],
                                     claims, outs, 1, <<>>)} :
                    /\ verified' = r.cache
                    /\ verifyCalls' = r.calls
                    /\ lastResult' = AggregateResults("agents", r.results)
                    /\ seen' = SeenAfter(claims)
                    /\ given' = GivenAfter(r.results)
                    /\ lastCall' = CallHistory("agents", claims, outs)
    /\ nChecks' = nChecks + 1
    /\ UNCHANGED <<fcImpl, orchVars, modVars, debVars, goalVars, sessVars, unitVars>>

NextFC == ChainCheckStatement \/ AgentsCheckStatement

SpecFC == InitFC /\ [][NextFC]_vars

\* C10: on one fact-checker instance the verification generation call is
\* issued exactly once for every claim string that occurred in a checked
\* statement, whatever its first outcome, and never for any other.
C10_VerificationOncePerClaim ==
    \A c \in Claims : verifyCalls[c] = IF c \in seen THEN 1 ELSE 0

\* C11: within one fact-checker instance all the per-claim results returned
\* for one claim string, in the same or in different statements, carry the
\* same status and the same confidence.
C11_SameClaimSameResult ==
    \A c \in Claims : Cardinality(given[c]) <= 1

\* C18: the aggregate of an empty list of verification results has confidence
\* 0.0, the label "No claims found" or "Unknown" and empty details, and
\* check_statement on a statement with no claims returns that same result.
C18_EmptyAggregate ==
    (nChecks > 0 /\ lastResult.n = 0) =>
        /\ AggregateResults(fcImpl, <<>>).overall_accuracy \in {"No claims found", "Unknown"}
        /\ AggregateResults(fcImpl, <<>>).sum = 0
        /\ AggregateResults(fcImpl, <<>>).details = <<>>
        /\ lastResult = AggregateResults(fcImpl, <<>>)

\* C19: over a non-empty list of results the overall confidence is the mean
\* of the contributions (the confidence of a Verified claim, half the
\* confidence of a Misleading one, 0 for any other status), and so lies in
\* [0, 1]; sums are in two-hundredths.
C19_OverallIsMeanWithinUnitInterval ==
    (nChecks > 0 /\ lastResult.n > 0) =>
        /\ lastResult.n = Len(lastResult.details)
        /\ lastResult.sum = SumContributions(lastResult.details)
        /\ lastResult.sum >= 0
        /\ lastResult.sum <= 200 * lastResult.n

\* the record a response is parsed to, by the parser of the implementation
ParsedBy(which, out) ==
    IF which = "chain"
    THEN ClaimVerifier_parse_verification(out)
    ELSE FactCheckerAgent_parse_verification_response(out)

\* C20: when the verification of a claim of a statement fails, check_statement
\* still returns an aggregate whose details list every extracted claim, in
\* order: the failed claim with status Error and confidence 0.0, a claim whose
\* verification succeeded with the record parsed from its response, a claim
\* answered from the cache with the cached record.
C20_FailedClaimDoesNotAbortAggregation ==
    (nChecks > 0 /\ lastCall.claims # <<>>) =>
        /\ Len(lastResult.details) = Len(lastCall.claims)
        /\ \A i \in 1..Len(lastCall.claims) :
             LET d == lastResult.details[i]
                 rec == [status |-> d.status, confidence |-> d.confidence]
             IN  /\ d.claim = lastCall.claims[i]
                 /\ (lastCall.issued[i] /\ lastCall.outs[i].raises) => rec = ErrorRecord
                 /\ (lastCall.issued[i] /\ ~lastCall.outs[i].raises) =>
                        rec = ParsedBy(fcImpl, lastCall.outs[i])
                 /\ ~lastCall.issued[i] => rec = verified[d.claim]

C20_Witness ==
    /\ Len(lastCall.claims) = 2
    /\ lastCall.claims[1] # lastCall.claims[2]
    /\ lastCall.issued[1] /\ lastCall.outs[1].raises
    /\ lastCall.issued[2] /\ ~lastCall.outs[2].raises
    /\ lastResult.details[1].status = "Error"
    /\ lastResult.details[2].status = "Verified"

\* C21: every verification record returned for a claim, and every record
\* held in the verification cache, has a confidence in [0, 1] (0..100 in
\* hundredths): a number above 1 is read as a percentage and clamped.
C21_ConfidenceWithinUnitInterval ==
    /\ \A i \in 1..Len(lastResult.details) :
         lastResult.details[i].confidence \in 0..100
    /\ \A c \in Claims :
         verified[c] # NotCached => verified[c].confidence \in 0..100

-----------------------------------------------------------------------------
(* A moderator instance under a sequence of calls of its operations *)

InitMod ==
    /\ OrchIdle
    /\ FcIdle
    /\ DebIdle
    /\ GoalIdle
    /\ SessIdle
    /\ UnitIdle
    /\ mImpl \in {"chain", "agents"}
    /\ mClock = 0
    /\ mStage = "not_started"
    /\ mLastSpeaker = ""
    /\ mSpeakerStart = NoTime
    /\ mTimer = [start |-> NoTime, times |-> [sp \in Speakers |-> NoTime]]
    /\ mInterventions = <<>>
    /\ mAdherence = AdherenceOne
    /\ mInappropriate = 0
    /\ mInterruptions = 0
    /\ mResult = NoModResult
    /\ mCheck = NoCheck
    /\ mOps = 0
    /\ mGen = "none"
    /\ mTopic = [sum |-> 0, n |-> 0]
    /\ mSample = NoSample
    /\ mNext = [n |-> 0, speaker |-> ""]

ModFrame == UNCHANGED <<mImpl, orchVars, fcVars, debVars, goalVars, sessVars, unitVars>>

\* the except clause returning no metadata
StageResult_without_metadata(stage, out, errorText) ==
    IF out = Raise
    THEN ModResult(errorText, FALSE, "none", FALSE, NoReason)
    ELSE ModResult(out, TRUE, stage, FALSE, NoReason)

\* the result of a stage handler whose generation call has outcome out
StageResult(stage, out, errorText) ==
    IF out = Raise
    THEN ModResult(errorText, TRUE, stage, TRUE, NoReason)
    ELSE ModResult(out, TRUE, stage, FALSE, NoReason)

\* whether the call made its generation call, and how that call ended
GenOutcome(generates, out) ==
    IF ~generates THEN "none" ELSE IF out = Raise THEN "raised" ELSE "ok"

(* time passes between two operations *)
ModTick ==
    /\ mClock < MaxTicks * TickSeconds
    /\ mClock' = mClock + TickSeconds
    /\ UNCHANGED <<mNext, mStage, mLastSpeaker, mSpeakerStart, mTimer, mInterventions, mAdherence,
                   mInappropriate, mInterruptions, mResult, mCheck, mOps, mGen, mTopic, mSample>>
    /\ ModFrame

(* ModeratorChain.moderate(stage, speaker=, content=, topic=) *)
ChainModerate ==
    /\ mImpl = "chain" /\ mOps < MaxModOps
    /\ \E stage \in StageInputs, speaker \in SpeakerInputs, ci \in ContentInputs,
          out \in {"a", Raise} :
         LET content == ci.content
             score == ci.score
             timing_result == TimingTool_run(mTimer, speaker, stage, mClock)
             chk == ModeratorChain_check_intervention_needed(
                        timing_result.tm, mInappropriate, speaker, content, score, mClock)
         IN  /\ mStage' = stage
             /\ IF content # "absent" /\ score # "raise"
                THEN /\ mTopic' = TopicAdherenceTool_run(mTopic, score)
                     /\ mSample' = [updated |-> TRUE,
                                    oldNum |-> IF mTopic.n = 0 THEN mAdherence ELSE mTopic.sum,
                                    oldDen |-> IF mTopic.n = 0 THEN 1 ELSE mTopic.n,
                                    sample |-> TopicScore(score),
                                    num |-> TopicAdherenceTool_run(mTopic, score).sum,
                                    den |-> TopicAdherenceTool_run(mTopic, score).n]
                ELSE UNCHANGED <<mTopic, mSample>>
             /\ mGen' = GenOutcome(chk.reason # NoReason \/ stage # "intervention", out)
             /\ mTimer' = chk.tm
             /\ mInappropriate' = chk.count
             /\ mCheck' = [ran |-> TRUE,
                           elapsed |-> IF speaker = "" \/ mTimer.start = NoTime THEN NoTime
                                       ELSE Elapsed(mTimer.times[speaker], mClock),
                           timing |-> timing_result.status = "time_violation",
                           topic |-> content # "absent" /\ score = "low",
                           content |-> TermsIn(str_lower(content)) # {},
                           interruption |-> FALSE,
                           reason |-> chk.reason,
                           statement |-> content,
                           contentRan |-> chk.ran,
                           needs |-> chk.needs]
             /\ IF chk.reason # NoReason
                THEN \* _handle_intervention: the entry is appended before the generation call
                     /\ mInterventions' = Append(mInterventions, chk.reason)
                     /\ mResult' = IF out = Raise
                                   THEN ModResult("Moderation error: E", TRUE, stage, TRUE, NoReason)
                                   ELSE ModResult(out, TRUE, "intervention", FALSE, chk.reason)
                     /\ UNCHANGED <<mLastSpeaker, mNext>>
                ELSE /\ UNCHANGED mInterventions
                     /\ IF stage \in {"introduction", "closing"}
                        THEN /\ mResult' = StageResult(stage, out, "Moderation error: E")
                             /\ UNCHANGED <<mLastSpeaker, mNext>>
                        ELSE IF stage = "transition"
                        THEN /\ mResult' = StageResult(stage, out, "Moderation error: E")
                             /\ mLastSpeaker' = determine_next_speaker(mLastSpeaker)
                             /\ mNext' = [n |-> mNext.n + 1,
                                          speaker |-> determine_next_speaker(mLastSpeaker)]
                        ELSE /\ mResult' = ModResult("Unknown stage", FALSE, "none", FALSE, NoReason)
                             /\ UNCHANGED <<mLastSpeaker, mNext>>
    /\ mOps' = mOps + 1
    /\ UNCHANGED <<mClock, mSpeakerStart, mAdherence, mInterruptions>>
    /\ ModFrame

(* ModeratorAgent.moderate(topic, stage); the summary generation call of     *)
(* _generate_closing is absorbed by _summarize_debate whatever its outcome   *)
AgentsModerate ==
    /\ mImpl = "agents" /\ mOps < MaxModOps
    /\ \E stage \in StageInputs, out \in {"a", Raise} :
         /\ mStage' = stage
         /\ IF stage = "intervention"
            THEN LET intervention_reason == ModeratorAgent_check_intervention(
                         mSpeakerStart, stage, mAdherence, mInappropriate, mInterruptions, mClock)
                 IN  /\ mGen' = GenOutcome(intervention_reason # NoReason, out)
                     /\ mCheck' = [ran |-> TRUE,
                                   elapsed |-> Elapsed(mSpeakerStart, mClock),
                                   timing |-> ModeratorAgent_check_time_violation(
                                                  mSpeakerStart, stage, mClock),
                                   topic |-> 2 * mAdherence < AdherenceOne,
                                   content |-> mInappropriate > 0,
                                   interruption |-> mInterruptions > 0,
                                   reason |-> intervention_reason,
                                   statement |-> "absent",
                                   contentRan |-> FALSE,
                                   needs |-> FALSE]
                     /\ IF intervention_reason = NoReason
                        THEN /\ mResult' = ModResult("", TRUE, "intervention", FALSE, NoReason)
                             /\ UNCHANGED mInterventions
                        ELSE IF out = Raise
                        THEN /\ mResult' = ModResult("Error generating intervention: E", TRUE,
                                                     "intervention", TRUE, NoReason)
                             /\ UNCHANGED mInterventions
                        ELSE /\ mResult' = ModResult(out, TRUE, "intervention", FALSE,
                                                     intervention_reason)
                             /\ mInterventions' = Append(mInterventions, intervention_reason)
                     /\ UNCHANGED <<mLastSpeaker, mSpeakerStart, mNext>>
            ELSE /\ UNCHANGED <<mCheck, mInterventions>>
                 /\ mGen' = GenOutcome(TRUE, out)
                 /\ IF stage = "transition"
                    THEN /\ mResult' = StageResult(stage, out, "Error generating transition: E")
                         /\ mNext' = [n |-> mNext.n + 1,
                                      speaker |-> determine_next_speaker(mLastSpeaker)]
                         /\ IF out = Raise
                            THEN UNCHANGED <<mLastSpeaker, mSpeakerStart>>
                            ELSE /\ mLastSpeaker' = determine_next_speaker(mLastSpeaker)
                                 /\ mSpeakerStart' = mClock
                    ELSE /\ UNCHANGED <<mLastSpeaker, mSpeakerStart, mNext>>
                         /\ IF stage \in {"introduction", "closing"}
                            THEN mResult' = StageResult(stage, out, "Error generating stage: E")
                            ELSE mResult' = ModResult("Unknown stage", TRUE, stage, TRUE, NoReason)
    /\ mOps' = mOps + 1
    /\ UNCHANGED <<mClock, mTimer, mAdherence, mInappropriate, mInterruptions, mTopic, mSample>>
    /\ ModFrame

(* ModeratorAgent.record_interruption *)
AgentsRecordInterruption ==
    /\ mImpl = "agents" /\ mInterruptions < MaxCount
    /\ mInterruptions' = mInterruptions + 1
    /\ UNCHANGED <<mNext, mClock, mStage, mLastSpeaker, mSpeakerStart, mTimer, mInterventions,
                   mAdherence, mInappropriate, mResult, mCheck, mOps, mGen, mTopic, mSample>>
    /\ ModFrame

(* ModeratorAgent.record_inappropriate_content *)
AgentsRecordInappropriate ==
    /\ mImpl = "agents" /\ mInappropriate < MaxCount
    /\ mInappropriate' = mInappropriate + 1
    /\ UNCHANGED <<mNext, mClock, mStage, mLastSpeaker, mSpeakerStart, mTimer, mInterventions,
                   mAdherence, mInterruptions, mResult, mCheck, mOps, mGen, mTopic, mSample>>
    /\ ModFrame

\* min(1.0, (old + score) / 2)
update_topic_adherence(old, score) ==
    LET new == (old + score) \div 2
    IN  IF new > AdherenceOne THEN AdherenceOne ELSE new

(* ModeratorAgent.update_topic_adherence(score); the score is kept exact: the *)
(* update is taken while its result is a multiple of 1 / AdherenceOne         *)
AgentsUpdateTopicAdherence ==
    /\ mImpl = "agents"
    /\ \E score \in {0, AdherenceOne} :
         /\ (mAdherence + score) % 2 = 0
         /\ mAdherence' = update_topic_adherence(mAdherence, score)
         /\ mSample' = [updated |-> TRUE, oldNum |-> mAdherence, oldDen |-> 1,
                        sample |-> score,
                        num |-> update_topic_adherence(mAdherence, score), den |-> 1]
    /\ UNCHANGED <<mNext, mClock, mStage, mLastSpeaker, mSpeakerStart, mTimer, mInterventions,
                   mInappropriate, mInterruptions, mResult, mCheck, mOps, mGen, mTopic>>
    /\ ModFrame

NextMod ==
    \/ ModTick
    \/ ChainModerate
    \/ AgentsModerate
    \/ AgentsRecordInterruption
    \/ AgentsRecordInappropriate
    \/ AgentsUpdateTopicAdherence

SpecMod == InitMod /\ [][NextMod]_vars

\* the reason the priority order of the conditions calls for
FirstReason(c) ==
    IF c.timing THEN "Time limit exceeded"
    ELSE IF c.topic THEN "Discussion off topic"
    ELSE IF c.content THEN "Inappropriate content"
    ELSE IF c.interruption THEN "Speaker interruption"
    ELSE NoReason

\* C12: an intervention check returns the reason of the first condition that
\* holds, in the order timing violation, topic drift, inappropriate content,
\* interruption, and no reason only when none of them holds; a timing
\* violation is the speaker's elapsed time exceeding the limit of the stage.
C12_InterventionPriority ==
    mCheck.ran => mCheck.reason = FirstReason(mCheck)

\* C28: an intervention check reports a timing violation exactly when the
\* time since the current speaker started exceeds the limit of the current
\* stage (180 seconds for a closing, 120 seconds in the rebuttal rounds), so
\* a speaker over the limit is reported at the next check.
C28_TimingViolationExactlyWhenOverLimit ==
    mCheck.ran =>
        (mCheck.reason = "Time limit exceeded"
            <=> (mCheck.elapsed # NoTime /\ mCheck.elapsed > TimeLimit(mStage)))

\* the statement contains a banned term, whatever its case
HasBannedTerm(statement) == statement = "Violent HATE"

ModErrorTexts ==
    {"Moderation error: E", "Error generating stage: E", "Error generating transition: E",
     "Error generating intervention: E"}

\* C14: a generation failure during a moderate call does not raise: the call
\* returns an error string with metadata whose error flag is set and whose
\* stage is the stage it was called with; the next moderate call, when its
\* generation succeeds, returns the generated text with metadata and no error
\* flag.
C14_GenerationFailureReturnsErrorResult ==
    [][/\ (mOps' # mOps /\ mGen' = "raised") =>
            /\ mResult'.content \in ModErrorTexts
            /\ mResult'.hasMetadata /\ mResult'.error
            /\ mResult'.stage = mStage'
       /\ (mGen = "raised" /\ mOps' # mOps /\ mGen' = "ok") =>
            /\ mResult'.content = "a"
            /\ mResult'.hasMetadata /\ ~mResult'.error]_vars

C14_Witness ==
    /\ mGen = "raised" /\ mOps >= 2
    /\ mStage = "closing" /\ mResult.stage = "closing" /\ mResult.error

\* C23: an update of the topic score with a sample sets the score to
\* (old score + sample) / 2, so from 1.0 and a sample of 0.0 the score is
\* exactly 0.5; with samples in [0, 1] the score stays in [0, 1].
C23_TopicScoreIsHalvedSum ==
    mSample.updated =>
        /\ 2 * mSample.num * mSample.oldDen =
               (mSample.oldNum + mSample.sample * mSample.oldDen) * mSample.den
        /\ mSample.num >= 0
        /\ mSample.num <= AdherenceOne * mSample.den

(* C36: successive transitions hand off to the speakers in the fixed       *)
(* 2-cycle: the first transition selects the first speaker of the speaker  *)
(* order, Proponent, and each later one the speaker after the last, so the *)
(* speakers selected alternate Proponent, Opponent, Proponent, ...         *)
C36_TransitionsAlternateSpeakers ==
    [][mNext'.n = mNext.n + 1 =>
           mNext'.speaker = IF mNext.n = 0 THEN Order[1] ELSE Other(mNext.speaker)]_vars

(* C34: the interventions issued hold exactly one entry, with its reason,  *)
(* per intervention statement that was generated and returned, in order of *)
(* issue: a call that finds no violation, or whose generation fails, adds  *)
(* no entry                                                                *)
C34_OneEntryPerInterventionReturned ==
    [][IF mOps' # mOps /\ mResult'.reason # NoReason /\ ~mResult'.error
       THEN mInterventions' = Append(mInterventions, mResult'.reason)
       ELSE mInterventions' = mInterventions]_vars

\* a step that is an intervention call of the agents' moderator made when
\* one of the two counters is positive
CountedInterventionCall ==
    /\ mImpl = "agents" /\ mOps' # mOps /\ mStage' = "intervention"
    /\ mInappropriate > 0 \/ mInterruptions > 0

\* no operation decreases or resets one of the two counters
CountersNeverDecrease ==
    /\ mInappropriate' >= mInappropriate
    /\ mInterruptions' >= mInterruptions

(* C37 as stated: no operation of the moderator decreases or resets the    *)
(* inappropriate-content count or the interruption count; hence once one   *)
(* of them is positive every later intervention check returns a reason and *)
(* every later intervention call emits an intervention                     *)
C37_EveryLaterCallEmitsAnIntervention ==
    [][/\ CountersNeverDecrease
       /\ CountedInterventionCall =>
            /\ mCheck'.reason # NoReason
            /\ mResult'.reason # NoReason /\ ~mResult'.error
            /\ mInterventions' = Append(mInterventions, mResult'.reason)]_vars

(* C37, amended: no operation of the moderator decreases or resets the two *)
(* counters; once one of them is positive every later intervention check   *)
(* returns a reason, and every later intervention call emits an            *)
(* intervention when its generation call returns and the error result,     *)
(* with nothing issued, when its generation call fails                     *)
C37_EveryLaterCallAttemptsAnIntervention ==
    [][/\ CountersNeverDecrease
       /\ CountedInterventionCall =>
            /\ mCheck'.reason # NoReason
            /\ mGen' \in {"ok", "raised"}
            /\ mGen' = "ok" =>
                 /\ mResult'.reason = mCheck'.reason /\ ~mResult'.error
                 /\ mInterventions' = Append(mInterventions, mResult'.reason)
            /\ mGen' = "raised" =>
                 /\ mResult'.error /\ mResult'.reason = NoReason
                 /\ mInterventions' = mInterventions]_vars

\* two intervention calls after an interruption was recorded, both emitted
C37_Witness ==
    /\ mImpl = "agents" /\ mInterruptions > 0 /\ mInappropriate = 0
    /\ mOps = 2 /\ mStage = "intervention" /\ mGen = "ok"
    /\ mInterventions = <<"Speaker interruption", "Speaker interruption">>

-----------------------------------------------------------------------------
(* A debater instance under a sequence of calls of its operations *)

InitDeb ==
    /\ OrchIdle
    /\ FcIdle
    /\ ModIdle
    /\ dImpl \in {"chain", "agents"}
    /\ dMetrics = [arguments_made |-> 0, evidence_used |-> 0, counter_points_addressed |-> 0]
    /\ dArgs = <<>>
    /\ dText = {}
    /\ dValue = NoValue
    /\ dReturned = [t \in EvalTexts |-> {}]
    /\ dOps = 0
    /\ dOpponent = <<>>
    /\ dRebuttal = NoRebuttal
    /\ dCalls = <<>>
    /\ GoalIdle
    /\ SessIdle
    /\ UnitIdle

DebFrame == UNCHANGED <<dImpl, orchVars, fcVars, modVars, goalVars, sessVars, unitVars>>

(* DebateChain._calculate_confidence(text) *)
ChainCalculateConfidence ==
    /\ dImpl = "chain" /\ dOps < MaxDebOps
    /\ \E text \in EvalTexts :
         /\ dText' = text
         /\ dValue' = DebateChain_calculate_confidence(text)
         /\ dMetrics' = DebateChain_calculate_confidence_metrics(dMetrics, text)
         /\ dReturned' = [dReturned EXCEPT ![text] =
                              @ \cup {DebateChain_calculate_confidence(text)}]
    /\ dOps' = dOps + 1
    /\ UNCHANGED <<dArgs, dOpponent, dRebuttal, dCalls>>
    /\ DebFrame

(* DebateAgent._evaluate_argument_strength(argument) *)
AgentsEvaluateStrength ==
    /\ dImpl = "agents" /\ dOps < MaxDebOps
    /\ \E text \in EvalTexts :
         /\ dText' = text
         /\ dValue' = DebateAgent_evaluate_argument_strength(text)
         /\ dReturned' = [dReturned EXCEPT ![text] =
                              @ \cup {DebateAgent_evaluate_argument_strength(text)}]
    /\ dOps' = dOps + 1
    /\ UNCHANGED <<dMetrics, dArgs, dOpponent, dRebuttal, dCalls>>
    /\ DebFrame

(* DebateChain.generate_rebuttal(topic, previous_argument) *)
ChainGenerateRebuttal ==
    /\ dImpl = "chain" /\ dOps < MaxDebOps
    /\ \E previous_argument \in Arguments, aOut \in AnalysisOutcomes, out \in {"a", Raise} :
         LET analysis == ArgumentAnalyzer_analyze(previous_argument, aOut)
             rebuttal == DebateChain_generate_rebuttal(previous_argument, out)
         IN  /\ dRebuttal' = [called |-> TRUE, argument |-> previous_argument,
                              analysisOut |-> aOut, analysis |-> analysis, out |-> out,
                              content |-> rebuttal.content,
                              counter_points |-> IF rebuttal.ok
                                                 THEN analysis.counter_points ELSE <<>>]
             /\ dCalls' = Append(dCalls, [kind |-> "rebuttal", raised |-> out = Raise,
                                          content |-> rebuttal.content])
             /\ IF rebuttal.ok
                THEN /\ dArgs' = Append(dArgs, Made("rebuttal", rebuttal))
                     /\ dMetrics' =
                          DebateChain_calculate_confidence_metrics(
                              [dMetrics EXCEPT
                                 !.arguments_made = @ + 1,
                                 !.counter_points_addressed =
                                     @ + Len(analysis.counter_points)],
                              {})
                ELSE UNCHANGED <<dArgs, dMetrics>>
    /\ dOps' = dOps + 1
    /\ UNCHANGED <<dText, dValue, dReturned, dOpponent>>
    /\ DebFrame

(* DebateAgent.generate_rebuttal(topic, opponent_argument, parameters) *)
AgentsGenerateRebuttal ==
    /\ dImpl = "agents" /\ dOps < MaxDebOps
    /\ \E opponent_argument \in Arguments, aOut \in AnalysisOutcomes, out \in {"a", Raise} :
         LET analysis == DebateAgent_analyze_opponent_argument(opponent_argument, aOut)
             counter_points == DebateAgent_generate_counter_points(analysis)
             rebuttal == DebateAgent_generate("rebuttal", out, "")
         IN  /\ dRebuttal' = [called |-> TRUE, argument |-> opponent_argument,
                              analysisOut |-> aOut, analysis |-> analysis, out |-> out,
                              content |-> rebuttal.content,
                              counter_points |-> IF rebuttal.ok
                                                 THEN counter_points ELSE <<>>]
             /\ dCalls' = Append(dCalls, [kind |-> "rebuttal", raised |-> out = Raise,
                                          content |-> rebuttal.content])
             /\ dOpponent' = Append(dOpponent, opponent_argument)
             /\ dArgs' = IF rebuttal.ok
                         THEN Append(dArgs, Made("rebuttal", rebuttal))
                         ELSE dArgs
    /\ dOps' = dOps + 1
    /\ UNCHANGED <<dMetrics, dText, dValue, dReturned>>
    /\ DebFrame

\* the responses of a generation call: a text, the empty text, an exception
Generated == {"a", "", Raise}

(* DebateChain.generate_opening(topic) *)
ChainGenerateOpening ==
    /\ dImpl = "chain" /\ dOps < MaxDebOps
    /\ \E out \in Generated :
         LET opening == DebateChain_generate_opening(out)
         IN  /\ dCalls' = Append(dCalls, [kind |-> "opening", raised |-> out = Raise,
                                          content |-> opening.content])
             /\ IF opening.ok
                THEN /\ dArgs' = Append(dArgs, Made("opening", opening))
                     /\ dMetrics' = DebateChain_calculate_confidence_metrics(
                                        [dMetrics EXCEPT !.arguments_made = @ + 1], {})
                ELSE UNCHANGED <<dArgs, dMetrics>>
    /\ dOps' = dOps + 1
    /\ UNCHANGED <<dText, dValue, dReturned, dOpponent, dRebuttal>>
    /\ DebFrame

(* DebateChain.generate_closing(topic) *)
ChainGenerateClosing ==
    /\ dImpl = "chain" /\ dOps < MaxDebOps
    /\ \E out \in Generated :
         LET closing == DebateChain_generate_closing(out)
         IN  /\ dCalls' = Append(dCalls, [kind |-> "closing", raised |-> out = Raise,
                                          content |-> closing.content])
             /\ IF closing.ok
                THEN /\ dArgs' = Append(dArgs, Made("closing", closing))
                     /\ dMetrics' = DebateChain_calculate_confidence_metrics(
                                        [dMetrics EXCEPT !.arguments_made = @ + 1], {})
                ELSE UNCHANGED <<dArgs, dMetrics>>
    /\ dOps' = dOps + 1
    /\ UNCHANGED <<dText, dValue, dReturned, dOpponent, dRebuttal>>
    /\ DebFrame

(* DebateAgent.generate_opening_statement(topic, parameters); the memory    *)
(* that its perceive call stores is the sMemory of the session              *)
AgentsGenerateOpening ==
    /\ dImpl = "agents" /\ dOps < MaxDebOps
    /\ \E resp \in Generated : \E completion \in Completions(resp) :
         LET opening == DebateAgent_generate("opening", resp, completion)
         IN  /\ dCalls' = Append(dCalls, [kind |-> "opening", raised |-> resp = Raise,
                                          content |-> opening.content])
             /\ dArgs' = IF opening.ok
                         THEN Append(dArgs, Made("opening", opening))
                         ELSE dArgs
    /\ dOps' = dOps + 1
    /\ UNCHANGED <<dMetrics, dText, dValue, dReturned, dOpponent, dRebuttal>>
    /\ DebFrame

(* DebateAgent.generate_closing_statement(topic, parameters) *)
AgentsGenerateClosing ==
    /\ dImpl = "agents" /\ dOps < MaxDebOps
    /\ \E resp \in Generated : \E completion \in Completions(resp) :
         LET closing == DebateAgent_generate("closing", resp, completion)
         IN  /\ dCalls' = Append(dCalls, [kind |-> "closing", raised |-> resp = Raise,
                                          content |-> closing.content])
             /\ dArgs' = IF closing.ok
                         THEN Append(dArgs, Made("closing", closing))
                         ELSE dArgs
    /\ dOps' = dOps + 1
    /\ UNCHANGED <<dMetrics, dText, dValue, dReturned, dOpponent, dRebuttal>>
    /\ DebFrame

NextDeb ==
    \/ ChainCalculateConfidence
    \/ AgentsEvaluateStrength
    \/ ChainGenerateOpening
    \/ AgentsGenerateOpening
    \/ ChainGenerateRebuttal
    \/ AgentsGenerateRebuttal
    \/ ChainGenerateClosing
    \/ AgentsGenerateClosing

SpecDeb == InitDeb /\ [][NextDeb]_vars

\* C22: evaluating the strength of a text changes no state of the debater
\* (argument history, metrics), returns the same value for the same text on
\* every call, and the value lies in [0, 1], for the empty text too.
C22_StrengthEvaluationIsPure ==
    [][/\ dMetrics' = dMetrics
       /\ dArgs' = dArgs
       /\ \A t \in EvalTexts : Cardinality(dReturned'[t]) <= 1
       /\ dValue' \in 0..10]_vars

\* C24: analysing an opponent argument propagates no error: when its
\* generation call fails, or the argument is empty, the analysis is the
\* structure with four empty lists, and the rebuttal that called it still
\* completes with the text its own generation call returned.
C24_AnalysisFailureYieldsEmptyAnalysis ==
    (dRebuttal.called /\ (dRebuttal.analysisOut.raised \/ dRebuttal.argument = "")) =>
        /\ dRebuttal.analysis = EmptyAnalysis
        /\ dRebuttal.out # Raise => dRebuttal.content = dRebuttal.out

(* C33: each successful opening, rebuttal or closing call appends exactly  *)
(* one Argument of its kind to the debater's argument history and leaves   *)
(* the earlier entries as they were; a call whose generation fails appends *)
(* none, so the history holds one entry per statement generated, in order  *)
C33_OneArgumentPerSuccessfulCall ==
    [][/\ SubSeq(dArgs', 1, Len(dArgs)) = dArgs
       /\ IF Len(dCalls') = Len(dCalls)
          THEN dArgs' = dArgs
          ELSE LET call == dCalls'[Len(dCalls')]
               IN  IF call.raised
                   THEN dArgs' = dArgs
                   ELSE dArgs' = Append(dArgs, [type |-> call.kind,
                                                content |-> call.content])]_vars

\* all three kinds, with a failed call between two successful ones
C33_Witness ==
    /\ Len(dCalls) = 3
    /\ dCalls[1].kind = "opening" /\ ~dCalls[1].raised
    /\ dCalls[2].kind = "rebuttal" /\ dCalls[2].raised
    /\ dCalls[3].kind = "closing" /\ ~dCalls[3].raised
    /\ Len(dArgs) = 2

\* the place of a counter-point's source in the priority order
PriorityRank(point) ==
    CASE point[1] = "Counter to claim" -> 1
      [] point[1] = "Challenge evidence" -> 2
      [] point[1] = "Exploit weakness" -> 3

(* C32: the counter-points derived for a rebuttal and stored on its        *)
(* Argument number at most three, contain no duplicate, and are taken in   *)
(* the priority order opponent claims, then evidence, then weaknesses      *)
C32_CounterPointsAtMostThreeDistinctInPriorityOrder ==
    LET points == dRebuttal.counter_points
    IN  /\ Len(points) <= 3
        /\ \A i, j \in DOMAIN points : i < j =>
               /\ points[i] # points[j]
               /\ PriorityRank(points[i]) <= PriorityRank(points[j])

-----------------------------------------------------------------------------
(* The goals of an agent under a sequence of learning and verification events *)

InitGoal ==
    /\ OrchIdle
    /\ FcIdle
    /\ ModIdle
    /\ DebIdle
    /\ SessIdle
    /\ UnitIdle
    /\ gRole \in Roles
    /\ gGoals = InitialGoals
    /\ gLast = "none"
    /\ gOps = 0

GoalFrame == UNCHANGED <<gRole, orchVars, fcVars, modVars, debVars, sessVars, unitVars>>

(* BaseAgent.learn(feedback), as far as the goals go *)
Learn ==
    /\ gOps < MaxGoalOps
    /\ \E feedback \in Feedbacks :
         gGoals' = BaseAgent_update_goals(gGoals, feedback)
    /\ gLast' = "learn"
    /\ gOps' = gOps + 1
    /\ GoalFrame

(* FactCheckerAgent._store_verification_result(claim, verification), as far *)
(* as the goals go                                                          *)
StoreVerificationResult ==
    /\ gRole = "fact_checker" /\ gOps < MaxGoalOps
    /\ \E status \in Statuses :
         /\ gGoals' = FactCheckerAgent_update_verification_goals(gGoals, status)
         /\ gLast' = status
    /\ gOps' = gOps + 1
    /\ GoalFrame

NextGoal ==
    \/ Learn
    \/ StoreVerificationResult

SpecGoal == InitGoal /\ [][NextGoal]_vars

-----------------------------------------------------------------------------
(* The role objects of one session under turns taken in any order *)

InitSess ==
    /\ OrchIdle
    /\ FcIdle
    /\ ModIdle
    /\ DebIdle
    /\ GoalIdle
    /\ UnitIdle
    /\ sImpl \in {"chain", "agents"}
    /\ sArgs = [d \in Debaters |-> 0]
    /\ sOpp = [d \in Debaters |-> 0]
    /\ sStage = "introduction"
    /\ sCache = {}
    /\ sMemory = [r \in RoleNames |-> 0]
    /\ sLast = "none"
    /\ sOps = 0

SessFrame == UNCHANGED <<sImpl, orchVars, fcVars, modVars, debVars, goalVars, unitVars>>

(* DebateChain.generate_opening / generate_rebuttal / generate_closing of   *)
(* one debater: the call self({...}) of a chain built with memory=memory    *)
(* saves its inputs and outputs to that memory before it returns            *)
ChainDebaterTurn ==
    /\ sImpl = "chain" /\ sOps < MaxSessionOps
    /\ \E d \in Debaters, out \in {"a", Raise} :
         /\ sLast' = d
         /\ IF out = Raise
            THEN UNCHANGED <<sArgs, sMemory>>
            ELSE /\ sArgs' = [sArgs EXCEPT ![d] = @ + 1]
                 /\ sMemory' = DebateMemory_save(sMemory, d)
    /\ sOps' = sOps + 1
    /\ UNCHANGED <<sOpp, sStage, sCache>>
    /\ SessFrame

(* ModeratorChain.moderate(stage, ...) for a stage with a handler *)
ChainModeratorTurn ==
    /\ sImpl = "chain" /\ sOps < MaxSessionOps
    /\ \E stage \in {"introduction", "transition", "closing"}, out \in {"a", Raise} :
         /\ sStage' = stage
         /\ sMemory' = IF out = Raise THEN sMemory
                        ELSE DebateMemory_save(sMemory, "Moderator")
    /\ sLast' = "Moderator"
    /\ sOps' = sOps + 1
    /\ UNCHANGED <<sArgs, sOpp, sCache>>
    /\ SessFrame

(* FactCheckerChain.check_statement: the extractor and the verifier are     *)
(* chains without memory; verified claims go to the verifier's cache        *)
ChainFactCheckerTurn ==
    /\ sImpl = "chain" /\ sOps < MaxSessionOps
    /\ \E verified_now \in SUBSET Claims :
         sCache' = sCache \cup verified_now
    /\ sLast' = "FactChecker"
    /\ sOps' = sOps + 1
    /\ UNCHANGED <<sArgs, sOpp, sStage, sMemory>>
    /\ SessFrame

(* DebateAgent.generate_opening_statement / generate_rebuttal /             *)
(* generate_closing_statement of one debater                                *)
AgentsDebaterTurn ==
    /\ sImpl = "agents" /\ sOps < MaxSessionOps
    /\ \E d \in Debaters, kind \in {"opening", "rebuttal", "closing"},
          out \in {"a", Raise}, important \in BOOLEAN :
         /\ sLast' = d
         /\ sArgs' = IF out = Raise THEN sArgs ELSE [sArgs EXCEPT ![d] = @ + 1]
         /\ sOpp' = IF kind = "rebuttal" THEN [sOpp EXCEPT ![d] = @ + 1] ELSE sOpp
         /\ sMemory' = IF kind = "opening" /\ important
                        THEN BaseAgent_store_memory(sMemory, d)
                        ELSE sMemory
    /\ sOps' = sOps + 1
    /\ UNCHANGED <<sStage, sCache>>
    /\ SessFrame

(* ModeratorAgent.moderate(topic, stage) *)
AgentsModeratorTurn ==
    /\ sImpl = "agents" /\ sOps < MaxSessionOps
    /\ \E stage \in {"introduction", "transition", "closing"} :
         sStage' = stage
    /\ sLast' = "Moderator"
    /\ sOps' = sOps + 1
    /\ UNCHANGED <<sArgs, sOpp, sCache, sMemory>>
    /\ SessFrame

(* FactCheckerAgent.check_statement: every claim verified without an error  *)
(* is stored in verified_facts and in the agent's memories                  *)
AgentsFactCheckerTurn ==
    /\ sImpl = "agents" /\ sOps < MaxSessionOps
    /\ \E stored \in SUBSET Claims :
         /\ sCache' = sCache \cup stored
         /\ sMemory' = IF stored = {} THEN sMemory
                        ELSE BaseAgent_store_memory(sMemory, "FactChecker")
    /\ sLast' = "FactChecker"
    /\ sOps' = sOps + 1
    /\ UNCHANGED <<sArgs, sOpp, sStage>>
    /\ SessFrame

NextSess ==
    \/ ChainDebaterTurn
    \/ ChainModeratorTurn
    \/ ChainFactCheckerTurn
    \/ AgentsDebaterTurn
    \/ AgentsModeratorTurn
    \/ AgentsFactCheckerTurn

SpecSess == InitSess /\ [][NextSess]_vars

\* C26: the turn of a role changes only the state of that role: the argument
\* history and memory of every other debater, the moderator's stage and
\* memory and the fact checker's cache and memory are as they were before
\* the turn, unless the turn was theirs.
C26_TurnChangesOnlyOwnState ==
    [][/\ \A d \in Debaters :
            sLast' # d => /\ sArgs'[d] = sArgs[d]
                          /\ sOpp'[d] = sOpp[d]
                          /\ sMemory'[d] = sMemory[d]
       /\ sLast' # "Moderator" => /\ sStage' = sStage
                                   /\ sMemory'["Moderator"] = sMemory["Moderator"]
       /\ sLast' # "FactChecker" => /\ sCache' = sCache
                                     /\ sMemory'["FactChecker"] = sMemory["FactChecker"]]_vars


-----------------------------------------------------------------------------
(* A response parser applied to response texts of up to MaxParseLines lines *)

InitParse ==
    /\ OrchIdle
    /\ FcIdle
    /\ ModIdle
    /\ DebIdle
    /\ GoalIdle
    /\ SessIdle
    /\ MemIdle
    /\ pImpl \in {"chain", "agents"}
    /\ pLines = <<>>
    /\ pStatus = NoStatus

ParseFrame == UNCHANGED <<pImpl, orchVars, fcVars, modVars, debVars, goalVars, sessVars,
                          memVars>>

ResponseTexts == UNION {[1..n -> ResponseLines] : n \in 0..MaxParseLines}

\* result = self._parse_verification(response["text"])
ChainParseVerification ==
    /\ pImpl = "chain"
    /\ \E lines \in ResponseTexts :
        /\ pLines' = lines
        /\ pStatus' = ClaimVerifier_parse_status(lines, "Unverified")
    /\ ParseFrame

\* result = self._parse_verification_response(response)
AgentsParseVerificationResponse ==
    /\ pImpl = "agents"
    /\ \E lines \in ResponseTexts :
        /\ pLines' = lines
        /\ pStatus' = FactCheckerAgent_parse_status(lines, "Unverified")
    /\ ParseFrame

NextParse ==
    \/ ChainParseVerification
    \/ AgentsParseVerificationResponse

SpecParse == InitParse /\ [][NextParse]_vars

\* the texts of the Status: lines of the response parsed last
StatusLines == {pLines[i].text : i \in {j \in DOMAIN pLines : pLines[j].label = "Status"}}

(* C31: the status of a parsed verification is the value on the response's  *)
(* Status: line and one of Verified, Misleading, Unverified, Error: a       *)
(* response declaring Unverified or Misleading parses to that status, and   *)
(* the wording of its other lines does not change it                        *)
C31_ParsedStatusIsDeclaredStatus ==
    pStatus # NoStatus =>
        /\ pStatus \in {"Verified", "Misleading", "Unverified", "Error"}
        /\ \A declared \in {"Verified", "Misleading", "Unverified"} :
               StatusLines = {declared} => pStatus = declared


-----------------------------------------------------------------------------
(* The memory store of an agent under perceptions and verifications *)

InitMem ==
    /\ OrchIdle
    /\ FcIdle
    /\ ModIdle
    /\ DebIdle
    /\ GoalIdle
    /\ SessIdle
    /\ ParseIdle
    /\ memRole \in Roles
    /\ memories = <<>>
    /\ memRemoved = <<>>
    /\ memOps = 0

MemFrame == UNCHANGED <<memRole, orchVars, fcVars, modVars, debVars, goalVars, sessVars,
                        parseVars>>

(* BaseAgent.perceive(input_data): _store_memory when the input is          *)
(* important, and _store_memory ends with _manage_memory_capacity           *)
Perceive ==
    /\ memOps < MaxMemOps
    /\ \E important \in BOOLEAN, importance \in Importances :
         IF important
         THEN LET managed == BaseAgent_manage_memory_capacity(Append(memories, importance))
              IN  /\ memories' = managed.kept
                  /\ memRemoved' = managed.removed
         ELSE /\ memRemoved' = <<>>
              /\ UNCHANGED memories
    /\ memOps' = memOps + 1
    /\ MemFrame

(* FactCheckerAgent._store_verification_result(claim, verification), the   *)
(* memory it adds: self.memories.append(memory)                             *)
StoreVerificationMemory ==
    /\ memRole = "fact_checker" /\ memOps < MaxMemOps
    /\ \E confidence \in Confidences :
         memories' = Append(memories, confidence)
    /\ memRemoved' = <<>>
    /\ memOps' = memOps + 1
    /\ MemFrame

NextMem ==
    \/ Perceive
    \/ StoreVerificationMemory

SpecMem == InitMem /\ [][NextMem]_vars

(* C35: after any sequence of operations on an agent its memory store      *)
(* holds at most the capacity bound, and a pruning removes only memories   *)
(* of lowest importance                                                    *)
C35_MemoryStoreWithinCapacity ==
    /\ Len(memories) <= max_memories
    /\ \A i \in DOMAIN memRemoved : \A j \in DOMAIN memories :
           memRemoved[i] <= memories[j]

====
